---- MODULE Spec2Model ----
(***************************************************************************)
(* A model of the JIRA evidence helper (src/jira/helper): the tracker      *)
(* client (jira_client.go, jira_utils.go), the version-control extraction  *)
(* service (git.go, the second half of config.go), configuration loading   *)
(* (config.go), the mode selector and the modes (modes.go, the second half *)
(* of src/unnamed/part_015) and main (main.go).                            *)
(*                                                                         *)
(* Representation.                                                         *)
(*   - An identifier, a status name, a commit hash, a flag value is an     *)
(*     atomic string; "" is the empty string.                              *)
(*   - A text that the code builds by formatting or concatenation (a link, *)
(*     a description, a timestamp) is a sequence of atomic pieces; <<>> is *)
(*     the empty string and \o is concatenation.                           *)
(*   - A Go pointer or interface that may be nil is a sequence of length   *)
(*     at most one: <<>> is nil, <<v>> points to v.                        *)
(***************************************************************************)
EXTENDS Integers, Sequences, FiniteSets, TLC

VARIABLES
    flags,        \* FlagConfig: the parsed command line flags
    args,         \* flag.Args(): the positional arguments
    env,          \* the process environment (os.Getenv)
    repo,         \* the working directory as the git binary sees it
    config,       \* <<>> before LoadConfig returned, then <<AppConfig>>
    pc,           \* the position of the process
    mode,         \* the modes entered so far, in order
    seedID,       \* currentJiraID: the seed identifier GetBranchInfo returned
    jiraIDs,      \* the identifier list handed to FetchJiraDetails
    replies,      \* the tracker's replies so far, one per Issue.Get call
    inFlight,     \* tracker calls issued and not yet returned
    response,     \* TransitionCheckResponse.Tasks being built
    client,       \* <<>> or <<JiraClient>>
    gitCalls,     \* the git commands issued so far (execCommand)
    extracted,    \* <<>> or <<result of GitService.ExtractJiraIDs>>
    stderr,       \* diagnostics written to os.Stderr
    outFile,      \* the file at config.OutputFile: <<>> or <<content>>
    mdFile,       \* the markdown file: <<>> or <<content>>
    exitCode      \* -1 while running, then the exit status

vars == <<flags, args, env, repo, config, pc, mode, seedID, jiraIDs,
          replies, inFlight, response, client, gitCalls, extracted, stderr,
          outFile, mdFile, exitCode>>

-----------------------------------------------------------------------------
(* Generic helpers *)

None == <<>>
Some(v) == <<v>>
IsNil(p) == p = <<>>
Deref(p) == p[1]

Range(s) == {s[i] : i \in 1..Len(s)}

SeqsUpTo(S, n) == UNION {[1..k -> S] : k \in 0..n}

HasPrefix(s, p) == Len(s) >= Len(p) /\ SubSeq(s, 1, Len(p)) = p

NoDuplicates(s) == \A i, j \in 1..Len(s) : i # j => s[i] # s[j]

-----------------------------------------------------------------------------
(* jira_models.go *)

ErrorStatus == "Error"
ErrorType == "Error"

\* A time.Time value is its wall-clock reading; Format(JiraTimeFormat) lays
\* it out as date T clock . millis zone.
FormatJiraTime(t) == <<t.date, "T", t.clock, ".", t.frac, t.zone>>

-----------------------------------------------------------------------------
(* jira_utils.go: field extractors *)

getStatusName(status) == IF IsNil(status) THEN "" ELSE Deref(status).Name

getIssueTypeName(issueType) == issueType.Name

getProjectKey(project) == project.Key

getReporterName(reporter) == IF IsNil(reporter) THEN "" ELSE Deref(reporter).DisplayName

getPriorityName(priority) == IF IsNil(priority) THEN "" ELSE Deref(priority).Name

\* *string: nil, or a pointer to the display name (which may be "").
getAssignee(assignee) == IF IsNil(assignee) THEN None ELSE Some(Deref(assignee).DisplayName)

\* fmt.Sprintf("%v", x) of a value that is not a string: some non-empty
\* rendering of the Go value, which is none of the texts of the model.
SprintfV(x) == <<"%v(", x.kind, ")">>

\* timeField is an interface value: its dynamic type is kind. jira.Time (the
\* type of Fields.Created and Fields.Updated) takes the default branch: its
\* MarshalJSON writes the JiraTimeFormat layout as a JSON string, which
\* unmarshals into timeStr.
getTimeAsString(timeField) ==
    CASE timeField.kind = "nil" -> <<>>
      [] timeField.kind = "string" -> timeField.v
      [] timeField.kind = "time.Time" -> FormatJiraTime(timeField.v)
      [] timeField.kind = "*time.Time" ->
            IF ~IsNil(timeField.v) THEN FormatJiraTime(Deref(timeField.v)) ELSE <<>>
      [] timeField.kind = "jira.Time" ->
            IF FormatJiraTime(timeField.v) # <<>>
            THEN FormatJiraTime(timeField.v)
            ELSE SprintfV(timeField)
      [] OTHER -> SprintfV(timeField)

\* An ADF node is a JSON value: kind "map" with optional type, content and
\* text entries, or some other JSON value.
RECURSIVE extractTextFromADFNode(_)
RECURSIVE JoinADF(_)
JoinADF(content) ==
    IF content = <<>> THEN <<>>
    ELSE extractTextFromADFNode(Head(content)) \o JoinADF(Tail(content))

extractTextFromADFNode(node) ==
    IF node.kind # "map" THEN <<>>
    ELSE CASE node.type = "paragraph" ->
                IF IsNil(node.content) THEN <<>> ELSE JoinADF(Deref(node.content))
           [] node.type = "text" ->
                IF IsNil(node.text) THEN <<>> ELSE Deref(node.text)
           [] OTHER -> <<>>

getDescription(desc) ==
    IF IsNil(desc) THEN <<>>
    ELSE IF Deref(desc).kind = "string" THEN Deref(desc).v
    ELSE IF Deref(desc).kind # "map" THEN SprintfV(Deref(desc))
    ELSE IF IsNil(Deref(desc).content) THEN SprintfV(Deref(desc))
    ELSE IF JoinADF(Deref(Deref(desc).content)) = <<>> THEN SprintfV(Deref(desc))
    ELSE JoinADF(Deref(Deref(desc).content))

-----------------------------------------------------------------------------
(* jira_client.go *)

\* fmt.Sprintf("%s/browse/%s", baseURL, key)
BrowseLink(baseURL, key) == <<baseURL, "/browse/", key>>

createErrorResult(jiraID, err) ==
    [ Key         |-> jiraID,
      Link        |-> <<>>,
      Status      |-> ErrorStatus,
      Description |-> IF ~IsNil(err)
                      THEN <<"Error: ">> \o Deref(err)
                      ELSE <<"Error: ", "Could not retrieve issue">>,
      Type        |-> ErrorType,
      Project     |-> "",
      Created     |-> <<>>,
      Updated     |-> <<>>,
      Assignee    |-> None,
      Reporter    |-> "",
      Priority    |-> "",
      Transitions |-> Some(<<>>) ]

\* ItemTransitions comparing the field name without regard to case
RECURSIVE ItemTransitionsFold(_, _)
ItemTransitionsFold(history, items) ==
    IF items = <<>> THEN <<>>
    ELSE (IF Head(items).Field \in {"status", "Status"}
          THEN << [ FromStatus     |-> Head(items).FromString,
                    ToStatus       |-> Head(items).ToString,
                    Author         |-> history.Author.DisplayName,
                    AuthorEmail    |-> history.Author.EmailAddress,
                    TransitionTime |-> history.Created ] >>
          ELSE <<>>)
         \o ItemTransitionsFold(history, Tail(items))

RECURSIVE ItemTransitions(_, _)
ItemTransitions(history, items) ==
    IF items = <<>> THEN <<>>
    ELSE (IF Head(items).Field = "status"
          THEN << [ FromStatus     |-> Head(items).FromString,
                    ToStatus       |-> Head(items).ToString,
                    Author         |-> history.Author.DisplayName,
                    AuthorEmail    |-> history.Author.EmailAddress,
                    TransitionTime |-> history.Created ] >>
          ELSE <<>>)
         \o ItemTransitions(history, Tail(items))

RECURSIVE HistoryTransitions(_)
HistoryTransitions(histories) ==
    IF histories = <<>> THEN <<>>
    ELSE ItemTransitions(Head(histories), Head(histories).Items)
         \o HistoryTransitions(Tail(histories))

\* []Transition: <<>> is the nil slice (var transitions []Transition with
\* nothing appended), <<s>> a slice with the elements of s.
extractTransitions(issue) ==
    IF IsNil(issue.Changelog) \/ Len(Deref(issue.Changelog).Histories) = 0
    THEN None
    ELSE IF HistoryTransitions(Deref(issue.Changelog).Histories) = <<>>
         THEN None
         ELSE Some(HistoryTransitions(Deref(issue.Changelog).Histories))

createSuccessResult(jc, issue) ==
    [ Key         |-> issue.Key,
      Link        |-> IF jc.baseURL # "" THEN BrowseLink(jc.baseURL, issue.Key) ELSE <<>>,
      Status      |-> getStatusName(Deref(issue.Fields).Status),
      Description |-> getDescription(Deref(issue.Fields).Description),
      Type        |-> getIssueTypeName(Deref(issue.Fields).Type),
      Project     |-> getProjectKey(Deref(issue.Fields).Project),
      Created     |-> getTimeAsString(Deref(issue.Fields).Created),
      Updated     |-> getTimeAsString(Deref(issue.Fields).Updated),
      Assignee    |-> getAssignee(Deref(issue.Fields).Assignee),
      Reporter    |-> getReporterName(Deref(issue.Fields).Reporter),
      Priority    |-> getPriorityName(Deref(issue.Fields).Priority),
      Transitions |-> extractTransitions(issue) ]

\* reply is what jc.client.Issue.Get returned: [issue, err].
fetchSingleJiraDetail(jc, jiraID, reply) ==
    IF ~IsNil(reply.err) \/ IsNil(reply.issue) \/ IsNil(Deref(reply.issue).Fields)
    THEN createErrorResult(jiraID, reply.err)
    ELSE createSuccessResult(jc, Deref(reply.issue))

-----------------------------------------------------------------------------
(* The tracker: what Issue.Get may answer *)

MaxIDs == 3

IDPool == {"EV-1", "EV-2"}

Alice == [DisplayName |-> "alice", EmailAddress |-> "alice@example.com"]
Blank == [DisplayName |-> "", EmailAddress |-> ""]

Stamp1 == [date |-> "2025-01-01", clock |-> "10:30:45", frac |-> "123", zone |-> "+0300"]

Para(nodes) == [kind |-> "map", type |-> "paragraph", content |-> Some(nodes), text |-> None]
TextNode(t) == [kind |-> "map", type |-> "text", content |-> None, text |-> Some(t)]
Doc(nodes)  == [kind |-> "map", type |-> "doc", content |-> Some(nodes), text |-> None]

StatusChange == [Field |-> "status", FromString |-> "To Do", ToString |-> "Done"]
OtherChange  == [Field |-> "assignee", FromString |-> "", ToString |-> "alice"]

PlainFields ==
    [ Status      |-> Some([Name |-> "Done"]),
      Description |-> Some(Doc(<<Para(<<TextNode(<<"Fix ">>), TextNode(<<"login">>)>>)>>)),
      Type        |-> [Name |-> "Task"],
      Project     |-> [Key |-> "EV"],
      Created     |-> [kind |-> "jira.Time", v |-> Stamp1],
      Updated     |-> [kind |-> "jira.Time", v |-> Stamp1],
      Assignee    |-> Some(Alice),
      Reporter    |-> Some(Alice),
      Priority    |-> Some([Name |-> "High"]) ]

\* The field sets the tracker may send for an issue: a fully populated one,
\* one with every nullable field null, one whose workflow status is named
\* "Error" (status names are free text in the tracker), one whose description
\* is a plain string starting with "Error: ".
FieldPool ==
    { PlainFields,
      [PlainFields EXCEPT !.Status = None, !.Description = None, !.Assignee = None,
                          !.Reporter = None, !.Priority = None],
      [PlainFields EXCEPT !.Status = Some([Name |-> "Error"])],
      [PlainFields EXCEPT !.Assignee = Some(Blank),
                          !.Description = Some([kind |-> "string", v |-> <<"Error: ", "seen">>])] }

ChangelogPool ==
    { None,
      Some([Histories |-> << [Author |-> Alice, Created |-> FormatJiraTime(Stamp1),
                              Items |-> <<OtherChange, StatusChange>>] >>]) }

\* Issue.Get(jiraID): an error with no issue, no error and no issue, an issue
\* without fields, or an issue. The tracker answers with its own key for the
\* issue: the requested one, or another (a moved issue is served under its
\* new key). The field sets come without change history, the change history
\* with the fully populated field set.
Replies(jiraID) ==
    { [issue |-> None, err |-> Some(<<"404 Not Found">>)],
      [issue |-> None, err |-> None],
      [issue |-> Some([Key |-> jiraID, Fields |-> None, Changelog |-> None]), err |-> None] }
    \cup { [issue |-> Some([Key |-> k, Fields |-> Some(f), Changelog |-> None]), err |-> None] :
             k \in {jiraID, "NEW-7"}, f \in FieldPool }
    \cup { [issue |-> Some([Key |-> k, Fields |-> Some(PlainFields), Changelog |-> c]), err |-> None] :
             k \in {jiraID, "NEW-7"}, c \in ChangelogPool }

IsFailure(reply) ==
    ~IsNil(reply.err) \/ IsNil(reply.issue) \/ IsNil(Deref(reply.issue).Fields)

-----------------------------------------------------------------------------
(* FetchJiraDetails, one step per tracker call and per return *)

NoFlags ==
    [ JIRAIDRegex |-> "", OutputFile |-> "", ExtractOnly |-> FALSE, ExtractFromGit |-> FALSE,
      CommitRange |-> FALSE, Help |-> FALSE, HelpLong |-> FALSE, GenerateMarkdown |-> FALSE, MarkdownOutput |-> "" ]

FullEnv ==
    [ JIRA_API_TOKEN |-> "tok", JIRA_URL |-> "https://jira.example", JIRA_USERNAME |-> "bot",
      JIRA_ID_REGEX |-> "", OUTPUT_FILE |-> "" ]

NoRepo == [state |-> "none", commits |-> <<>>]

\* for _, jiraID := range jiraIDs: the call for the next identifier is issued.
FetchCall ==
    /\ pc = "fetch"
    /\ Len(response) < Len(jiraIDs)
    /\ pc' = "fetching"
    /\ inFlight' = Append(inFlight, jiraIDs[Len(response) + 1])
    /\ UNCHANGED <<flags, args, env, repo, config, mode, seedID, jiraIDs, replies,
                   response, client, gitCalls, extracted, stderr, outFile, mdFile,
                   exitCode>>

\* FetchReturn with a failed fetch ending the loop: FetchJiraDetails returns
\* what it has so far.
FetchReturnAbort ==
    /\ pc = "fetching"
    /\ \E reply \in Replies(inFlight[1]) :
         /\ replies' = Append(replies, reply)
         /\ IF IsFailure(reply)
            THEN /\ pc' = "save"
                 /\ UNCHANGED response
            ELSE /\ pc' = "fetch"
                 /\ response' = Append(response, fetchSingleJiraDetail(Deref(client), inFlight[1], reply))
         /\ stderr' = IF IsFailure(reply) /\ ~IsNil(reply.err)
                      THEN Append(stderr, "Failed to fetch JIRA")
                      ELSE stderr
    /\ inFlight' = Tail(inFlight)
    /\ UNCHANGED <<flags, args, env, repo, config, mode, seedID, jiraIDs,
                   client, gitCalls, extracted, outFile, mdFile, exitCode>>

\* Issue.Get returns; the result is appended to response.Tasks.
FetchReturn ==
    /\ pc = "fetching"
    /\ \E reply \in Replies(inFlight[1]) :
         /\ replies' = Append(replies, reply)
         /\ response' = Append(response, fetchSingleJiraDetail(Deref(client), inFlight[1], reply))
         /\ stderr' = IF IsFailure(reply) /\ ~IsNil(reply.err)
                      THEN Append(stderr, "Failed to fetch JIRA")
                      ELSE stderr
    /\ inFlight' = Tail(inFlight)
    /\ pc' = "fetch"
    /\ UNCHANGED <<flags, args, env, repo, config, mode, seedID, jiraIDs,
                   client, gitCalls, extracted, outFile, mdFile, exitCode>>

\* FetchDone leaving the loop before every identifier was asked for
FetchDoneEarly ==
    /\ pc = "fetch"
    /\ Len(response) <= Len(jiraIDs)
    /\ pc' = "save"
    /\ UNCHANGED <<flags, args, env, repo, config, mode, seedID, jiraIDs, replies,
                   inFlight, response, client, gitCalls, extracted, stderr, outFile, mdFile,
                   exitCode>>

\* The loop is over: return response.
FetchDone ==
    /\ pc = "fetch"
    /\ Len(response) = Len(jiraIDs)
    /\ pc' = "save"
    /\ UNCHANGED <<flags, args, env, repo, config, mode, seedID, jiraIDs, replies,
                   inFlight, response, client, gitCalls, extracted, stderr, outFile, mdFile,
                   exitCode>>

\* A client built by NewJiraClient calls FetchJiraDetails(ids).
FetchInit ==
    /\ flags = NoFlags
    /\ args = <<>>
    /\ env = FullEnv
    /\ repo = NoRepo
    /\ config = None
    /\ pc = "fetch"
    /\ mode = <<>>
    /\ seedID = ""
    /\ jiraIDs \in SeqsUpTo(IDPool, MaxIDs)
    /\ replies = <<>>
    /\ inFlight = <<>>
    /\ response = <<>>
    /\ client = Some([baseURL |-> FullEnv.JIRA_URL])
    /\ gitCalls = <<>>
    /\ extracted = None
    /\ stderr = <<>>
    /\ outFile = None
    /\ mdFile = None
    /\ exitCode = -1

FetchNext == FetchCall \/ FetchReturn \/ FetchDone

SpecFetch == FetchInit /\ [][FetchNext]_vars

-----------------------------------------------------------------------------
(* Regular expressions (package regexp) over the atoms of the model *)

DefaultJIRAIDRegex == "[A-Z]+-[0-9]+"
DefaultOutputFile == "transformed_jira_data.json"

\* A pattern matching the empty string, and one that does not compile.
DigitsStar == "[0-9]*"
BadPattern == "["

\* The atoms [A-Z]+-[0-9]+ matches (it matches each of them as a whole).
JiraLike == {"EV-1", "EV-2", "EV-3"}

\* The atoms ^[a-fA-F0-9]+$ matches.
FullHash == "f00df00df00df00df00df00df00df00df00df00d"
HexAtoms == {"a1", "a2", "a3", "a4", "a5", "dead", FullHash}

\* regexp.Compile accepting every pattern
CompilesAnything(pattern) == TRUE

\* regexp.Compile(pattern) succeeds
Compiles(pattern) == pattern # BadPattern

\* regex.FindAllString(atom, -1) for an atom standing alone: the default
\* pattern finds an identifier as a whole; [0-9]* finds an empty match at
\* every non-digit and the digit runs; any other pattern of the model has no
\* metacharacter and finds itself. No atom of the model contains another.
FindAllInAtom(pattern, atom) ==
    CASE pattern = DefaultJIRAIDRegex -> IF atom \in JiraLike THEN <<atom>> ELSE <<>>
      [] pattern = DigitsStar ->
            CASE atom = "EV-1" -> <<"", "", "", "1">>
              [] atom = "EV-2" -> <<"", "", "", "2">>
              [] atom = "EV-3" -> <<"", "", "", "3">>
              [] atom = "a1" -> <<"", "1">>
              [] atom = "a2" -> <<"", "2">>
              [] atom = "a3" -> <<"", "3">>
              [] atom = "a4" -> <<"", "4">>
              [] atom = "a5" -> <<"", "5">>
              [] OTHER -> <<"">>
      [] OTHER -> IF atom = pattern /\ atom # "" THEN <<atom>> ELSE <<>>

\* regex.MatchString(atom)
MatchString(pattern, atom) ==
    IF pattern = DigitsStar THEN TRUE ELSE FindAllInAtom(pattern, atom) # <<>>

\* regex.FindAllString(line, -1): a line is a sequence of atoms separated by
\* text no pattern of the model matches, except that [0-9]* matches the empty
\* string there (and in an empty line).
RECURSIVE FindAllString(_, _)
FindAllString(pattern, line) ==
    IF line = <<>> THEN (IF pattern = DigitsStar THEN <<"">> ELSE <<>>)
    ELSE FindAllInAtom(pattern, Head(line))
         \o (IF Tail(line) = <<>> THEN <<>> ELSE FindAllString(pattern, Tail(line)))

-----------------------------------------------------------------------------
(* errors.go *)

GitError(operation, why) == [type |-> "GitError", what |-> operation, why |-> why]
ValidationError(field, why) == [type |-> "ValidationError", what |-> field, why |-> why]
\* fmt.Errorf(msg) and fmt.Errorf(msg + ": %v", cause)
Errorf(msg) == [type |-> "error", what |-> msg, why |-> ""]
Wrapped(msg, cause) == [type |-> "error", what |-> msg, why |-> cause.type]

-----------------------------------------------------------------------------
(* The git binary (defaultGitCommand) on the working directory.             *)
(* repo.state is "none" outside a work tree, "empty" in a repository without *)
(* commits, "commits" otherwise; repo.commits is the history of the current  *)
(* branch, oldest first, each commit with its hash and its subject line.     *)

BranchName == "main"

HeadIndex(r) == Len(r.commits)

\* The commit a revision names: its index in the history, or 0.
Resolve(r, rev) ==
    IF rev = "HEAD" THEN HeadIndex(r)
    ELSE IF \E i \in 1..Len(r.commits) : r.commits[i].hash = rev
         THEN CHOOSE i \in 1..Len(r.commits) : r.commits[i].hash = rev
         ELSE 0

\* git log A..HEAD printing the subject of A as well
RECURSIVE SubjectsFromStart(_, _, _)
SubjectsFromStart(r, from, to) ==
    IF to < from THEN <<>>
    ELSE <<r.commits[to].subject>> \o SubjectsFromStart(r, from, to - 1)

\* git log --pretty=format:%s A..HEAD: the subjects after A, newest first.
RECURSIVE SubjectsNewestFirst(_, _, _)
SubjectsNewestFirst(r, from, to) ==
    IF to <= from THEN <<>>
    ELSE <<r.commits[to].subject>> \o SubjectsNewestFirst(r, from, to - 1)

\* strings.TrimSpace of the output, seen as lines: empty lines at both ends go.
RECURSIVE TrimLeft(_)
TrimLeft(lines) ==
    IF lines # <<>> /\ Head(lines) = <<>> THEN TrimLeft(Tail(lines)) ELSE lines
RECURSIVE TrimRight(_)
TrimRight(lines) ==
    IF lines # <<>> /\ lines[Len(lines)] = <<>>
    THEN TrimRight(SubSeq(lines, 1, Len(lines) - 1))
    ELSE lines
TrimSpace(lines) == TrimRight(TrimLeft(lines))

\* strings.Split(output, "\n"): the empty output is one empty line.
SplitLines(lines) == IF lines = <<>> THEN << <<>> >> ELSE lines

GitOK(lines) == [out |-> TrimSpace(lines), err |-> None]
GitFail(cmd) == [out |-> <<>>, err |-> Some(GitError(cmd, "exit status 128"))]

\* g.execCommand(cmd...): the output (as lines) and the error.
defaultGitCommand(r, cmd) ==
    IF r.state = "none" THEN GitFail(cmd)
    ELSE CASE cmd = <<"rev-parse", "--git-dir">> -> GitOK(<< <<".git">> >>)
           [] cmd = <<"branch", "--show-current">> -> GitOK(<< <<BranchName>> >>)
           [] cmd = <<"log", "-1", "--format=%H%n%s">> ->
                IF HeadIndex(r) = 0 THEN GitFail(cmd)
                ELSE GitOK(<< <<r.commits[HeadIndex(r)].hash>>,
                              r.commits[HeadIndex(r)].subject >>)
           [] Len(cmd) = 3 /\ SubSeq(cmd, 1, 2) = <<"rev-parse", "--verify">> ->
                \* a full-length hexadecimal name is accepted unchecked
                IF Resolve(r, cmd[3]) # 0 THEN GitOK(<< <<r.commits[Resolve(r, cmd[3])].hash>> >>)
                ELSE IF cmd[3] = FullHash THEN GitOK(<< <<cmd[3]>> >>)
                ELSE GitFail(cmd)
           [] Len(cmd) = 4 /\ SubSeq(cmd, 1, 3) = <<"log", "-1", "--pretty=format:%s">> ->
                IF Resolve(r, cmd[4]) # 0 THEN GitOK(<< r.commits[Resolve(r, cmd[4])].subject >>)
                ELSE GitFail(cmd)
           [] Len(cmd) = 4 /\ SubSeq(cmd, 1, 2) = <<"log", "--pretty=format:%s">>
                           /\ cmd[4] = "..HEAD" ->
                IF Resolve(r, cmd[3]) # 0 /\ HeadIndex(r) # 0
                THEN GitOK(SubjectsNewestFirst(r, Resolve(r, cmd[3]), HeadIndex(r)))
                ELSE GitFail(cmd)
           [] OTHER -> GitFail(cmd)

-----------------------------------------------------------------------------
(* git.go: GitService. Each operation yields its results and the git        *)
(* commands it issued, in order (calls).                                    *)

\* validateCommitHash: <<>> or the error
validateCommitHash(hash) ==
    IF hash = "" THEN Some(ValidationError("commit", "cannot be empty"))
    ELSE IF hash \notin HexAtoms THEN Some(ValidationError("commit", "invalid format"))
    ELSE None

extractFirstJIRAID(text, pattern) ==
    IF ~Compiles(pattern) THEN ""
    ELSE IF Len(FindAllString(pattern, text)) > 0 THEN FindAllString(pattern, text)[1]
    ELSE ""

CmdBranch == <<"branch", "--show-current">>
CmdLatest == <<"log", "-1", "--format=%H%n%s">>
CmdVerify(rev) == <<"rev-parse", "--verify", rev>>
CmdSubject(rev) == <<"log", "-1", "--pretty=format:%s", rev>>
\* the revision range startCommit+"..HEAD", kept as its two parts
CmdRange(rev) == <<"log", "--pretty=format:%s", rev, "..HEAD">>
CmdGitDir == <<"rev-parse", "--git-dir">>

GetBranchInfo(r) ==
    LET branch == defaultGitCommand(r, CmdBranch)
        latest == defaultGitCommand(r, CmdLatest)
        lines  == SplitLines(latest.out)
        fail(e, c) == [branchName |-> "", commitHash |-> "", jiraID |-> "", err |-> e, calls |-> c]
    IN  IF ~IsNil(branch.err) THEN fail(branch.err, <<CmdBranch>>)
        ELSE IF ~IsNil(latest.err) THEN fail(latest.err, <<CmdBranch, CmdLatest>>)
        ELSE IF Len(lines) < 2
             THEN fail(Some(GitError("log -1", "unexpected output format")), <<CmdBranch, CmdLatest>>)
        ELSE [ branchName |-> branch.out[1][1],
               commitHash |-> lines[1][1],
               jiraID     |-> extractFirstJIRAID(lines[2], DefaultJIRAIDRegex),
               err        |-> None,
               calls      |-> <<CmdBranch, CmdLatest>> ]

\* ValidateCommit asking git before it looks at the format
ValidateCommitLookupFirst(r, commit) ==
    IF ~IsNil(defaultGitCommand(r, CmdVerify(commit)).err)
    THEN [err |-> Some(GitError("rev-parse --verify", "commit not found")),
          calls |-> <<CmdVerify(commit)>>]
    ELSE [err |-> validateCommitHash(commit), calls |-> <<CmdVerify(commit)>>]

ValidateCommit(r, commit) ==
    IF ~IsNil(validateCommitHash(commit))
    THEN [err |-> validateCommitHash(commit), calls |-> <<>>]
    ELSE IF ~IsNil(defaultGitCommand(r, CmdVerify(commit)).err)
         THEN [err |-> Some(GitError("rev-parse --verify", "commit not found")),
               calls |-> <<CmdVerify(commit)>>]
         ELSE [err |-> None, calls |-> <<CmdVerify(commit)>>]

ValidateHEAD(r) ==
    IF ~IsNil(defaultGitCommand(r, CmdVerify("HEAD")).err)
    THEN [err |-> Some(GitError("rev-parse --verify HEAD", "repository may be empty or corrupted")),
          calls |-> <<CmdVerify("HEAD")>>]
    ELSE [err |-> None, calls |-> <<CmdVerify("HEAD")>>]

\* CheckRepository dropping the error of the git call
CheckRepositoryUnchecked(r) == [err |-> None, calls |-> <<CmdGitDir>>]

CheckRepository(r) ==
    IF ~IsNil(defaultGitCommand(r, CmdGitDir).err)
    THEN [err |-> Some(GitError("rev-parse --git-dir", "not in a git repository")),
          calls |-> <<CmdGitDir>>]
    ELSE [err |-> None, calls |-> <<CmdGitDir>>]

\* The matches of every line, in scanning order.
RECURSIVE AllMatches(_, _)
AllMatches(pattern, lines) ==
    IF lines = <<>> THEN <<>>
    ELSE FindAllString(pattern, Head(lines)) \o AllMatches(pattern, Tail(lines))

\* The keys of the map jiraIDs after the seed and the matches went in.
UniqueKeys(commitMessages, currentJiraID, pattern) ==
    (IF currentJiraID # "" /\ MatchString(pattern, currentJiraID) THEN {currentJiraID} ELSE {})
    \cup Range(AllMatches(pattern, SplitLines(commitMessages)))

\* Every order in which a range over a Go map may deliver the keys of S.
MapOrders(S) == {s \in [1..Cardinality(S) -> S] : Range(s) = S}

\* extractUniqueJIRAIDs collecting into a slice instead of a map: the seed,
\* then every match, repeated as often as it occurs.
extractUniqueJIRAIDsAppend(commitMessages, currentJiraID, pattern) ==
    { SelectSeq((IF currentJiraID # "" /\ MatchString(pattern, currentJiraID)
                 THEN <<currentJiraID>> ELSE <<>>)
                \o AllMatches(pattern, SplitLines(commitMessages)),
                LAMBDA id : id # "") }

\* extractUniqueJIRAIDs: the slices it may return. The result is built by
\* ranging over the map, whose iteration order Go leaves unspecified.
extractUniqueJIRAIDs(commitMessages, currentJiraID, pattern) ==
    MapOrders(UniqueKeys(commitMessages, currentJiraID, pattern) \ {""})

\* ExtractJiraIDs handing the seed to extractUniqueJIRAIDs in both modes.
ExtractJiraIDsSeedAlways(r, startCommit, jiraIDRegex, seed, singleCommit) ==
    LET valid == ValidateCommit(r, startCommit)
        cmd   == IF singleCommit THEN CmdSubject(startCommit) ELSE CmdRange(startCommit)
        log   == defaultGitCommand(r, cmd)
        fail(e, c) == {[ids |-> <<>>, err |-> e, calls |-> c, warned |-> FALSE]}
    IN  IF ~IsNil(valid.err) THEN fail(valid.err, valid.calls)
        ELSE IF ~IsNil(log.err) THEN fail(log.err, valid.calls \o <<cmd>>)
        ELSE IF ~Compiles(jiraIDRegex)
             THEN fail(Some(ValidationError("jira_id_regex", "does not compile")),
                       valid.calls \o <<cmd>>)
        ELSE { [ids |-> ids, err |-> None, calls |-> valid.calls \o <<cmd>>,
                warned |-> Len(ids) = 0] :
               ids \in extractUniqueJIRAIDs(log.out, seed, jiraIDRegex) }

\* ExtractJiraIDs reading the range whatever singleCommit says
ExtractJiraIDsRangeAlways(r, startCommit, jiraIDRegex, seed, singleCommit) ==
    LET valid == ValidateCommit(r, startCommit)
        cmd   == CmdRange(startCommit)
        log   == defaultGitCommand(r, cmd)
        jiraIDToAdd == IF singleCommit THEN "" ELSE seed
        fail(e, c) == {[ids |-> <<>>, err |-> e, calls |-> c, warned |-> FALSE]}
    IN  IF ~IsNil(valid.err) THEN fail(valid.err, valid.calls)
        ELSE IF ~IsNil(log.err) THEN fail(log.err, valid.calls \o <<cmd>>)
        ELSE IF ~Compiles(jiraIDRegex)
             THEN fail(Some(ValidationError("jira_id_regex", "does not compile")),
                       valid.calls \o <<cmd>>)
        ELSE { [ids |-> ids, err |-> None, calls |-> valid.calls \o <<cmd>>,
                warned |-> Len(ids) = 0] :
               ids \in extractUniqueJIRAIDs(log.out, jiraIDToAdd, jiraIDRegex) }

\* ExtractJiraIDs saying nothing about an empty result
ExtractJiraIDsSilent(r, startCommit, jiraIDRegex, seed, singleCommit) ==
    LET valid == ValidateCommit(r, startCommit)
        cmd   == IF singleCommit THEN CmdSubject(startCommit) ELSE CmdRange(startCommit)
        log   == defaultGitCommand(r, cmd)
        jiraIDToAdd == IF singleCommit THEN "" ELSE seed
        fail(e, c) == {[ids |-> <<>>, err |-> e, calls |-> c, warned |-> FALSE]}
    IN  IF ~IsNil(valid.err) THEN fail(valid.err, valid.calls)
        ELSE IF ~IsNil(log.err) THEN fail(log.err, valid.calls \o <<cmd>>)
        ELSE IF ~Compiles(jiraIDRegex)
             THEN fail(Some(ValidationError("jira_id_regex", "does not compile")),
                       valid.calls \o <<cmd>>)
        ELSE { [ids |-> ids, err |-> None, calls |-> valid.calls \o <<cmd>>,
                warned |-> FALSE] :
               ids \in extractUniqueJIRAIDs(log.out, jiraIDToAdd, jiraIDRegex) }

\* GitService.ExtractJiraIDs: the outcomes it may have.
ExtractJiraIDs(r, startCommit, jiraIDRegex, seed, singleCommit) ==
    LET valid == ValidateCommit(r, startCommit)
        cmd   == IF singleCommit THEN CmdSubject(startCommit) ELSE CmdRange(startCommit)
        log   == defaultGitCommand(r, cmd)
        jiraIDToAdd == IF singleCommit THEN "" ELSE seed
        fail(e, c) == {[ids |-> <<>>, err |-> e, calls |-> c, warned |-> FALSE]}
    IN  IF ~IsNil(valid.err) THEN fail(valid.err, valid.calls)
        ELSE IF ~IsNil(log.err) THEN fail(log.err, valid.calls \o <<cmd>>)
        ELSE IF ~Compiles(jiraIDRegex)
             THEN fail(Some(ValidationError("jira_id_regex", "does not compile")),
                       valid.calls \o <<cmd>>)
        ELSE { [ids |-> ids, err |-> None, calls |-> valid.calls \o <<cmd>>,
                warned |-> Len(ids) = 0] :
               ids \in extractUniqueJIRAIDs(log.out, jiraIDToAdd, jiraIDRegex) }

-----------------------------------------------------------------------------
(* config.go: LoadConfig *)

\* getOrDefault keeping the last non-empty value instead of the first
RECURSIVE getOrDefaultLast(_)
getOrDefaultLast(values) ==
    IF values = <<>> THEN ""
    ELSE IF values[Len(values)] # "" THEN values[Len(values)]
    ELSE getOrDefaultLast(SubSeq(values, 1, Len(values) - 1))

RECURSIVE getOrDefault(_)
getOrDefault(values) ==
    IF values = <<>> THEN ""
    ELSE IF Head(values) # "" THEN Head(values)
    ELSE getOrDefault(Tail(values))

\* validateJIRAConfig testing the URL before the token
validateJIRAConfigURLFirst(c) ==
    IF c.JIRAURL = "" THEN Some(ValidationError("JIRA_URL", "environment variable is required"))
    ELSE IF c.JIRAToken = "" THEN Some(ValidationError("JIRA_API_TOKEN", "environment variable is required"))
    ELSE IF c.JIRAUsername = "" THEN Some(ValidationError("JIRA_USERNAME", "environment variable is required"))
    ELSE None

\* validateJIRAConfig: <<>> or the error
validateJIRAConfig(c) ==
    IF c.JIRAToken = "" THEN Some(ValidationError("JIRA_API_TOKEN", "environment variable is required"))
    ELSE IF c.JIRAURL = "" THEN Some(ValidationError("JIRA_URL", "environment variable is required"))
    ELSE IF c.JIRAUsername = "" THEN Some(ValidationError("JIRA_USERNAME", "environment variable is required"))
    ELSE None

\* LoadConfig reading and validating the credentials in every mode
LoadConfigAlwaysValidates(f, e) ==
    LET base == [ JIRAToken |-> "", JIRAURL |-> "", JIRAUsername |-> "",
                  JIRAIDRegex    |-> getOrDefault(<<f.JIRAIDRegex, e.JIRA_ID_REGEX, DefaultJIRAIDRegex>>),
                  OutputFile     |-> getOrDefault(<<f.OutputFile, e.OUTPUT_FILE, DefaultOutputFile>>),
                  ExtractOnly    |-> f.ExtractOnly,
                  ExtractFromGit |-> f.ExtractFromGit,
                  SingleCommit   |-> ~f.CommitRange,
                  StartCommit    |-> "",
                  JIRAIDs        |-> <<>> ]
        loaded == [base EXCEPT !.JIRAToken = e.JIRA_API_TOKEN, !.JIRAURL = e.JIRA_URL,
                               !.JIRAUsername = e.JIRA_USERNAME]
    IN  IF ~IsNil(validateJIRAConfig(loaded))
        THEN [config |-> None, err |-> validateJIRAConfig(loaded)]
        ELSE [config |-> Some(loaded), err |-> None]

\* LoadConfig(flags, args) with the environment e: [config, err]
LoadConfig(f, e) ==
    LET base == [ JIRAToken |-> "", JIRAURL |-> "", JIRAUsername |-> "",
                  JIRAIDRegex    |-> getOrDefault(<<f.JIRAIDRegex, e.JIRA_ID_REGEX, DefaultJIRAIDRegex>>),
                  OutputFile     |-> getOrDefault(<<f.OutputFile, e.OUTPUT_FILE, DefaultOutputFile>>),
                  ExtractOnly    |-> f.ExtractOnly,
                  ExtractFromGit |-> f.ExtractFromGit,
                  SingleCommit   |-> ~f.CommitRange,
                  StartCommit    |-> "",
                  JIRAIDs        |-> <<>> ]
        loaded == [base EXCEPT !.JIRAToken = e.JIRA_API_TOKEN, !.JIRAURL = e.JIRA_URL,
                               !.JIRAUsername = e.JIRA_USERNAME]
    IN  IF ~base.ExtractOnly /\ ~base.ExtractFromGit /\ ~f.GenerateMarkdown
        THEN (IF ~IsNil(validateJIRAConfig(loaded))
              THEN [config |-> None, err |-> validateJIRAConfig(loaded)]
              ELSE [config |-> Some(loaded), err |-> None])
        ELSE [config |-> Some(base), err |-> None]

\* NewJiraClient with the environment e: [client, err]
NewJiraClient(e) ==
    IF e.JIRA_API_TOKEN = ""
    THEN [client |-> None, err |-> Some(ValidationError("JIRA_API_TOKEN", "environment variable not found"))]
    ELSE IF e.JIRA_URL = ""
    THEN [client |-> None, err |-> Some(ValidationError("JIRA_URL", "environment variable not found"))]
    ELSE IF e.JIRA_USERNAME = ""
    THEN [client |-> None, err |-> Some(ValidationError("JIRA_USERNAME", "environment variable not found"))]
    ELSE [client |-> Some([baseURL |-> e.JIRA_URL]), err |-> None]

-----------------------------------------------------------------------------
(* encoding/json on TransitionCheckResponse (jira_models.go) *)

\* json.Marshal of a task writing a nil transitions slice as []
MarshalTaskNilAsEmpty(t) ==
    [ key |-> t.Key,
      link |-> IF t.Link = <<>> THEN None ELSE Some(t.Link),
      status |-> t.Status, description |-> t.Description, type |-> t.Type,
      project |-> t.Project, created |-> t.Created, updated |-> t.Updated,
      assignee |-> t.Assignee, reporter |-> t.Reporter, priority |-> t.Priority,
      transitions |-> IF IsNil(t.Transitions) THEN Some(<<>>) ELSE t.Transitions ]

\* json.Marshal of a task: "link" is omitted when empty (omitempty), a nil
\* assignee and a nil transitions slice are written as null.
MarshalTask(t) ==
    [ key |-> t.Key,
      link |-> IF t.Link = <<>> THEN None ELSE Some(t.Link),
      status |-> t.Status, description |-> t.Description, type |-> t.Type,
      project |-> t.Project, created |-> t.Created, updated |-> t.Updated,
      assignee |-> t.Assignee, reporter |-> t.Reporter, priority |-> t.Priority,
      transitions |-> t.Transitions ]

\* json.Unmarshal of a task object: an absent "link" leaves the zero value.
UnmarshalTask(j) ==
    [ Key |-> j.key,
      Link |-> IF IsNil(j.link) THEN <<>> ELSE Deref(j.link),
      Status |-> j.status, Description |-> j.description, Type |-> j.type,
      Project |-> j.project, Created |-> j.created, Updated |-> j.updated,
      Assignee |-> j.assignee, Reporter |-> j.reporter, Priority |-> j.priority,
      Transitions |-> j.transitions ]

MarshalResponse(tasks) == [tasks |-> [i \in 1..Len(tasks) |-> MarshalTask(tasks[i])]]
UnmarshalResponse(doc) == [i \in 1..Len(doc.tasks) |-> UnmarshalTask(doc.tasks[i])]

-----------------------------------------------------------------------------
(* markdown_generator.go *)

ValidDates == {"2025-01-01"}
ValidClocks == {"10:30:45", "9:30:45"}

\* time.Parse(JiraTimeFormat, dateStr) succeeds. The layout's hour "15" takes
\* one or two digits; every other field has a fixed width.
ParsesAsJiraTime(dateStr) ==
    /\ Len(dateStr) = 6
    /\ dateStr[1] \in ValidDates /\ dateStr[2] = "T" /\ dateStr[3] \in ValidClocks
    /\ dateStr[4] = "." /\ dateStr[5] \in {"000", "123"} /\ dateStr[6] \in {"+0000", "+0300"}

\* t.Format("15:04:05") of a parsed clock: the hour is written with two digits
FormatClock(clock) == IF clock = "9:30:45" THEN "09:30:45" ELSE clock

\* The same instant's clock in UTC, for a parsed clock and zone offset
ClockInUTC(clock, zone) ==
    IF zone = "+0300"
    THEN (IF clock = "9:30:45" THEN "06:30:45" ELSE "07:30:45")
    ELSE FormatClock(clock)

\* formatDate with the parsed time converted to UTC before it is written
formatDateUTC(dateStr) ==
    IF dateStr = <<>> THEN <<"N/A">>
    ELSE IF ~ParsesAsJiraTime(dateStr) THEN dateStr
    ELSE <<dateStr[1], " ", ClockInUTC(dateStr[3], dateStr[6])>>

formatDate(dateStr) ==
    IF dateStr = <<>> THEN <<"N/A">>
    ELSE IF ~ParsesAsJiraTime(dateStr) THEN dateStr
    ELSE <<dateStr[1], " ", FormatClock(dateStr[3])>>

KeyDisplay(task) ==
    IF task.Link # <<>> THEN <<"[", task.Key, "](">> \o task.Link \o <<")">> ELSE <<task.Key>>

AssigneeDisplay(task) ==
    IF ~IsNil(task.Assignee) /\ Deref(task.Assignee) # "" THEN Deref(task.Assignee) ELSE "Unassigned"

SummaryRow(task) ==
    [ key |-> KeyDisplay(task), status |-> task.Status, type |-> task.Type,
      priority |-> task.Priority, assignee |-> AssigneeDisplay(task) ]

TransitionRow(tr) ==
    [ from |-> tr.FromStatus, to |-> tr.ToStatus, author |-> tr.Author,
      date |-> formatDate(tr.TransitionTime) ]

\* DetailSection numbered with the loop index itself
DetailSectionFromZero(i, task) ==
    [ heading |-> <<i - 1>> \o KeyDisplay(task),
      status |-> task.Status, type |-> task.Type, project |-> task.Project,
      priority |-> task.Priority, assignee |-> AssigneeDisplay(task),
      reporter |-> task.Reporter,
      created |-> formatDate(task.Created), updated |-> formatDate(task.Updated),
      description |-> IF task.Description # <<>> THEN Some(<<"> ">> \o task.Description) ELSE None,
      transitions |-> IF ~IsNil(task.Transitions) /\ Len(Deref(task.Transitions)) > 0
                      THEN Some([k \in 1..Len(Deref(task.Transitions)) |->
                                    TransitionRow(Deref(task.Transitions)[k])])
                      ELSE None ]

DetailSection(i, task) ==
    [ heading |-> <<i>> \o KeyDisplay(task),
      status |-> task.Status, type |-> task.Type, project |-> task.Project,
      priority |-> task.Priority, assignee |-> AssigneeDisplay(task),
      reporter |-> task.Reporter,
      created |-> formatDate(task.Created), updated |-> formatDate(task.Updated),
      description |-> IF task.Description # <<>> THEN Some(<<"> ">> \o task.Description) ELSE None,
      transitions |-> IF ~IsNil(task.Transitions) /\ Len(Deref(task.Transitions)) > 0
                      THEN Some([k \in 1..Len(Deref(task.Transitions)) |->
                                    TransitionRow(Deref(task.Transitions)[k])])
                      ELSE None ]

\* StatusCount recording that a status occurs, not how often
StatusCountSeen(tasks, status) == IF \E i \in 1..Len(tasks) : tasks[i].Status = status THEN 1 ELSE 0

StatusCount(tasks, status) == Cardinality({i \in 1..Len(tasks) : tasks[i].Status = status})

\* generateMarkdown at wall-clock time now: the reports it may produce. The
\* distribution rows come from ranging over the map statusCount.
generateMarkdown(tasks, now) ==
    { [ title |-> "# JIRA Tasks Report",
        generated |-> now,
        total |-> Len(tasks),
        headings |-> <<"## Summary", "## Task Details", "## Status Distribution">>,
        summary |-> [i \in 1..Len(tasks) |-> SummaryRow(tasks[i])],
        details |-> [i \in 1..Len(tasks) |-> DetailSection(i, tasks[i])],
        distribution |-> [k \in 1..Len(order) |->
                             [status |-> order[k], count |-> StatusCount(tasks, order[k])]] ] :
      order \in MapOrders({tasks[i].Status : i \in 1..Len(tasks)}) }

-----------------------------------------------------------------------------
(* main.go and modes.go: the process, from main to exit *)

inputs == <<flags, args, env, repo>>
tracker == <<jiraIDs, replies, inFlight, response, client>>

Diag(prefix, e) == [prefix |-> prefix, type |-> e.type, what |-> e.what]

\* main's ending: a nil error returns from main (status 0); an error is
\* printed with "Error: " and the process exits with status 1.
ExitWith(err, diagnostics) ==
    /\ pc' = "exit"
    /\ exitCode' = IF IsNil(err) THEN 0 ELSE 1
    /\ stderr' = IF IsNil(err) THEN stderr \o diagnostics
                 ELSE stderr \o diagnostics \o <<Diag("Error: ", Deref(err))>>

\* main, up to the call of determineExecutionMode
Main ==
    /\ pc = "main"
    /\ IF flags.Help \/ flags.HelpLong
       THEN /\ pc' = "exit"
            /\ exitCode' = 0
            /\ UNCHANGED <<config, stderr>>
       ELSE IF ~IsNil(LoadConfig(flags, env).err)
       THEN /\ pc' = "exit"
            /\ exitCode' = 1
            /\ stderr' = Append(stderr, Diag("Error loading configuration: ",
                                             Deref(LoadConfig(flags, env).err)))
            /\ UNCHANGED config
       ELSE /\ pc' = "mode"
            /\ config' = LoadConfig(flags, env).config
            /\ UNCHANGED <<stderr, exitCode>>
    /\ UNCHANGED <<inputs, tracker, mode, seedID, gitCalls, extracted, outFile, mdFile>>

\* allArgsMatchPattern stopping at the first argument that matches
allArgsMatchPatternAny(a, pattern) == \E i \in 1..Len(a) : MatchString(pattern, a[i])

allArgsMatchPattern(a, pattern) == \A i \in 1..Len(a) : MatchString(pattern, a[i])

\* determineExecutionMode with the legacy flag tested before the report flag
SelectModeLegacyFirst(f, a, c) ==
    IF f.ExtractFromGit THEN "legacy"
    ELSE IF f.GenerateMarkdown THEN "markdown"
    ELSE IF Len(a) = 0 THEN "missing-arguments"
    ELSE IF /\ ~f.ExtractOnly
            /\ Len(a) > 0
            /\ Compiles(c.JIRAIDRegex)
            /\ allArgsMatchPattern(a, c.JIRAIDRegex)
         THEN "direct"
    ELSE "git-based"

\* The branch determineExecutionMode(flags, args, config) takes
SelectMode(f, a, c) ==
    IF f.GenerateMarkdown THEN "markdown"
    ELSE IF f.ExtractFromGit THEN "legacy"
    ELSE IF Len(a) = 0 THEN "missing-arguments"
    ELSE IF /\ ~f.ExtractOnly
            /\ Len(a) > 0
            /\ Compiles(c.JIRAIDRegex)
            /\ allArgsMatchPattern(a, c.JIRAIDRegex)
         THEN "direct"
    ELSE "git-based"

\* determineExecutionMode, up to the call of the mode it selects
DetermineExecutionMode ==
    /\ pc = "mode"
    /\ LET branch == SelectMode(flags, args, Deref(config))
       IN  CASE branch \in {"markdown", "legacy"} ->
                  /\ pc' = branch
                  /\ mode' = Append(mode, branch)
                  /\ UNCHANGED <<config, gitCalls, stderr, exitCode>>
             [] branch = "missing-arguments" ->
                  /\ ExitWith(Some(Errorf("missing required arguments")), <<>>)
                  /\ UNCHANGED <<config, gitCalls, mode>>
             [] branch = "direct" ->
                  /\ config' = Some([Deref(config) EXCEPT !.JIRAIDs = args])
                  /\ pc' = "direct"
                  /\ mode' = Append(mode, "direct")
                  /\ UNCHANGED <<gitCalls, stderr, exitCode>>
             [] OTHER ->
                  /\ config' = Some([Deref(config) EXCEPT !.StartCommit = args[1]])
                  /\ gitCalls' = gitCalls \o CheckRepository(repo).calls
                  /\ IF ~IsNil(CheckRepository(repo).err)
                     THEN /\ ExitWith(CheckRepository(repo).err, <<>>)
                          /\ mode' = Append(mode, "git-based")
                     ELSE /\ pc' = IF Deref(config).ExtractOnly THEN "extract-only" ELSE "full"
                          /\ mode' = mode \o <<"git-based",
                                               IF Deref(config).ExtractOnly
                                               THEN "extract-only" ELSE "full">>
                          /\ UNCHANGED <<stderr, exitCode>>
    /\ UNCHANGED <<inputs, tracker, seedID, extracted, outFile, mdFile>>

\* runExtractOnlyMode(config)
RunExtractOnlyMode ==
    /\ pc = "extract-only"
    /\ LET info == GetBranchInfo(repo)
           head == ValidateHEAD(repo)
       IN  IF ~IsNil(info.err)
           THEN /\ ExitWith(Some(Wrapped("failed to get branch info", Deref(info.err))), <<>>)
                /\ gitCalls' = gitCalls \o info.calls
                /\ UNCHANGED <<seedID, extracted>>
           ELSE IF ~IsNil(head.err)
           THEN /\ ExitWith(None, <<Diag("soft: ", Deref(head.err))>>)
                /\ gitCalls' = gitCalls \o info.calls \o head.calls
                /\ seedID' = info.jiraID
                /\ UNCHANGED extracted
           ELSE \E out \in ExtractJiraIDs(repo, Deref(config).StartCommit, Deref(config).JIRAIDRegex,
                                          info.jiraID, Deref(config).SingleCommit) :
                  /\ gitCalls' = gitCalls \o info.calls \o head.calls \o out.calls
                  /\ seedID' = info.jiraID
                  /\ extracted' = Some(out)
                  /\ IF ~IsNil(out.err)
                     THEN ExitWith(Some(Wrapped("failed to extract JIRA IDs", Deref(out.err))), <<>>)
                     ELSE ExitWith(None, IF out.warned
                                         THEN <<Diag("warning: ", Errorf("No JIRA IDs found"))>>
                                         ELSE <<>>)
    /\ UNCHANGED <<inputs, tracker, config, mode, outFile, mdFile>>

\* runLegacyExtractFromGit(args)
RunLegacyExtractFromGit ==
    /\ pc = "legacy"
    /\ IF Len(args) < 2
       THEN /\ ExitWith(Some(Errorf("insufficient arguments")), <<>>)
            /\ UNCHANGED <<gitCalls, seedID, extracted>>
       ELSE LET info  == GetBranchInfo(repo)
                head  == ValidateHEAD(repo)
                valid == ValidateCommit(repo, args[1])
            IN  IF ~IsNil(info.err)
                THEN /\ ExitWith(Some(Wrapped("error getting branch info", Deref(info.err))), <<>>)
                     /\ gitCalls' = gitCalls \o info.calls
                     /\ UNCHANGED <<seedID, extracted>>
                ELSE IF ~IsNil(head.err)
                THEN /\ ExitWith(None, <<Diag("soft: ", Deref(head.err))>>)
                     /\ gitCalls' = gitCalls \o info.calls \o head.calls
                     /\ seedID' = info.jiraID
                     /\ UNCHANGED extracted
                ELSE IF ~IsNil(valid.err)
                THEN /\ ExitWith(None, <<Diag("soft: ", Deref(valid.err))>>)
                     /\ gitCalls' = gitCalls \o info.calls \o head.calls \o valid.calls
                     /\ seedID' = info.jiraID
                     /\ UNCHANGED extracted
                ELSE \E out \in ExtractJiraIDs(repo, args[1], args[2], info.jiraID, FALSE) :
                       /\ gitCalls' = gitCalls \o info.calls \o head.calls \o valid.calls \o out.calls
                       /\ seedID' = info.jiraID
                       /\ extracted' = Some(out)
                       /\ IF ~IsNil(out.err)
                          THEN ExitWith(Some(Wrapped("error extracting JIRA IDs", Deref(out.err))), <<>>)
                          ELSE ExitWith(None, IF out.warned
                                              THEN <<Diag("warning: ", Errorf("No JIRA IDs found"))>>
                                              ELSE <<>>)
    /\ UNCHANGED <<inputs, tracker, config, mode, outFile, mdFile>>

\* runFullMode going on to the tracker steps whatever the extraction found
RunFullModeEager ==
    /\ pc = "full"
    /\ LET info == GetBranchInfo(repo)
           head == ValidateHEAD(repo)
       IN  IF ~IsNil(info.err)
           THEN /\ ExitWith(Some(Wrapped("error getting branch info", Deref(info.err))), <<>>)
                /\ gitCalls' = gitCalls \o info.calls
                /\ UNCHANGED <<seedID, extracted, config, jiraIDs, client>>
           ELSE IF ~IsNil(head.err)
           THEN /\ ExitWith(None, <<Diag("soft: ", Deref(head.err))>>)
                /\ gitCalls' = gitCalls \o info.calls \o head.calls
                /\ seedID' = info.jiraID
                /\ UNCHANGED <<extracted, config, jiraIDs, client>>
           ELSE \E out \in ExtractJiraIDs(repo, Deref(config).StartCommit, Deref(config).JIRAIDRegex,
                                          info.jiraID, Deref(config).SingleCommit) :
                  /\ gitCalls' = gitCalls \o info.calls \o head.calls \o out.calls
                  /\ seedID' = info.jiraID
                  /\ extracted' = Some(out)
                  /\ IF ~IsNil(out.err)
                     THEN /\ ExitWith(Some(Wrapped("error extracting JIRA IDs", Deref(out.err))), <<>>)
                          /\ UNCHANGED <<config, jiraIDs, client>>
                     ELSE /\ config' = Some([Deref(config) EXCEPT !.JIRAIDs = out.ids])
                          /\ IF ~IsNil(NewJiraClient(env).err)
                             THEN /\ ExitWith(Some(Wrapped("error creating JIRA client",
                                                           Deref(NewJiraClient(env).err))), <<>>)
                                  /\ UNCHANGED <<jiraIDs, client>>
                             ELSE /\ client' = NewJiraClient(env).client
                                  /\ jiraIDs' = out.ids
                                  /\ pc' = "fetch"
                                  /\ UNCHANGED <<stderr, exitCode>>
    /\ UNCHANGED <<inputs, replies, inFlight, response, mode, outFile, mdFile>>

\* runFullMode(config), up to the call of FetchJiraDetails
RunFullMode ==
    /\ pc = "full"
    /\ LET info == GetBranchInfo(repo)
           head == ValidateHEAD(repo)
       IN  IF ~IsNil(info.err)
           THEN /\ ExitWith(Some(Wrapped("error getting branch info", Deref(info.err))), <<>>)
                /\ gitCalls' = gitCalls \o info.calls
                /\ UNCHANGED <<seedID, extracted, config, jiraIDs, client>>
           ELSE IF ~IsNil(head.err)
           THEN /\ ExitWith(None, <<Diag("soft: ", Deref(head.err))>>)
                /\ gitCalls' = gitCalls \o info.calls \o head.calls
                /\ seedID' = info.jiraID
                /\ UNCHANGED <<extracted, config, jiraIDs, client>>
           ELSE \E out \in ExtractJiraIDs(repo, Deref(config).StartCommit, Deref(config).JIRAIDRegex,
                                          info.jiraID, Deref(config).SingleCommit) :
                  /\ gitCalls' = gitCalls \o info.calls \o head.calls \o out.calls
                  /\ seedID' = info.jiraID
                  /\ extracted' = Some(out)
                  /\ IF ~IsNil(out.err)
                     THEN /\ ExitWith(Some(Wrapped("error extracting JIRA IDs", Deref(out.err))), <<>>)
                          /\ UNCHANGED <<config, jiraIDs, client>>
                     ELSE IF Len(out.ids) = 0
                     THEN /\ ExitWith(None, IF out.warned
                                            THEN <<Diag("warning: ", Errorf("No JIRA IDs found"))>>
                                            ELSE <<>>)
                          /\ UNCHANGED <<config, jiraIDs, client>>
                     ELSE /\ config' = Some([Deref(config) EXCEPT !.JIRAIDs = out.ids])
                          /\ IF ~IsNil(NewJiraClient(env).err)
                             THEN /\ ExitWith(Some(Wrapped("error creating JIRA client",
                                                           Deref(NewJiraClient(env).err))), <<>>)
                                  /\ UNCHANGED <<jiraIDs, client>>
                             ELSE /\ client' = NewJiraClient(env).client
                                  /\ jiraIDs' = out.ids
                                  /\ pc' = "fetch"
                                  /\ UNCHANGED <<stderr, exitCode>>
    /\ UNCHANGED <<inputs, replies, inFlight, response, mode, outFile, mdFile>>

\* processDirectJiraIDs storing an output path of its own in the
\* configuration
ProcessDirectJiraIDsRewrites ==
    /\ pc = "direct"
    /\ config' = Some([Deref(config) EXCEPT !.OutputFile = "jira.json"])
    /\ IF ~IsNil(NewJiraClient(env).err)
       THEN /\ ExitWith(Some(Wrapped("error creating JIRA client", Deref(NewJiraClient(env).err))), <<>>)
            /\ UNCHANGED <<jiraIDs, client>>
       ELSE /\ client' = NewJiraClient(env).client
            /\ jiraIDs' = Deref(config).JIRAIDs
            /\ pc' = "fetch"
            /\ UNCHANGED <<stderr, exitCode>>
    /\ UNCHANGED <<inputs, replies, inFlight, response, mode, seedID, gitCalls,
                   extracted, outFile, mdFile>>

\* processDirectJiraIDs(config), up to the call of FetchJiraDetails
ProcessDirectJiraIDs ==
    /\ pc = "direct"
    /\ IF ~IsNil(NewJiraClient(env).err)
       THEN /\ ExitWith(Some(Wrapped("error creating JIRA client", Deref(NewJiraClient(env).err))), <<>>)
            /\ UNCHANGED <<jiraIDs, client>>
       ELSE /\ client' = NewJiraClient(env).client
            /\ jiraIDs' = Deref(config).JIRAIDs
            /\ pc' = "fetch"
            /\ UNCHANGED <<stderr, exitCode>>
    /\ UNCHANGED <<inputs, replies, inFlight, response, config, mode, seedID, gitCalls,
                   extracted, outFile, mdFile>>

\* saveJiraResults(response, config) and the return to main. The file
\* system is taken to accept the write.
SaveJiraResults ==
    /\ pc = "save"
    /\ outFile' = Some(MarshalResponse(response))
    /\ ExitWith(None, <<>>)
    /\ UNCHANGED <<inputs, tracker, config, mode, seedID, gitCalls, extracted, mdFile>>

Clock == {"09:00", "17:30"}

\* runMarkdownMode(flags): GenerateMarkdownFromJSON(inputFile, outputFile)
RunMarkdownMode ==
    /\ pc = "markdown"
    /\ IF IsNil(outFile)
       THEN /\ ExitWith(Some(Errorf("error reading JSON file")), <<>>)
            /\ UNCHANGED mdFile
       ELSE /\ \E now \in Clock :
                 \E doc \in generateMarkdown(UnmarshalResponse(Deref(outFile)), now) :
                    mdFile' = Some(doc)
            /\ ExitWith(None, <<>>)
    /\ UNCHANGED <<inputs, tracker, config, mode, seedID, gitCalls, extracted, outFile>>

-----------------------------------------------------------------------------
(* The inputs of a run *)

MaxArgs == 2
MaxRunCommits == 1
MaxCommits == 4

HashOf(i) == <<"a1", "a2", "a3", "a4", "a5">>[i]

\* The histories of at most n commits with subjects from pool
Histories(pool, n) ==
    UNION { { [i \in 1..k |-> [hash |-> HashOf(i), subject |-> subj[i]]] : subj \in [1..k -> pool] } :
            k \in 1..n }

ReposOver(pool, n) ==
    {NoRepo, [state |-> "empty", commits |-> <<>>]}
    \cup { [state |-> "commits", commits |-> h] : h \in Histories(pool, n) }

\* The response an earlier run left in the output file
StaleFile == Some(MarshalResponse(<<createErrorResult("OLD-1", None)>>))

ArgPool == {"EV-1", "a1", "dead", DefaultJIRAIDRegex}

FlagPool ==
    { [NoFlags EXCEPT !.JIRAIDRegex = r, !.ExtractOnly = eo, !.ExtractFromGit = eg,
                      !.CommitRange = cr, !.Help = h, !.GenerateMarkdown = md] :
        r \in {"", BadPattern}, eo \in BOOLEAN, eg \in BOOLEAN, cr \in BOOLEAN,
        h \in BOOLEAN, md \in BOOLEAN }

EnvPool ==
    { [FullEnv EXCEPT !.JIRA_API_TOKEN = t, !.JIRA_URL = u, !.JIRA_USERNAME = n] :
        t \in {"", FullEnv.JIRA_API_TOKEN}, u \in {"", FullEnv.JIRA_URL},
        n \in {"", FullEnv.JIRA_USERNAME} }

\* The process starts: flags parsed, nothing done.
Init ==
    /\ flags \in FlagPool
    /\ args \in SeqsUpTo(ArgPool, MaxArgs)
    /\ env \in EnvPool
    /\ repo \in ReposOver({<<"EV-1", "fix">>, <<"fix">>}, MaxRunCommits)
    /\ config = None
    /\ pc = "main"
    /\ mode = <<>>
    /\ seedID = ""
    /\ jiraIDs = <<>>
    /\ replies = <<>>
    /\ inFlight = <<>>
    /\ response = <<>>
    /\ client = None
    /\ gitCalls = <<>>
    /\ extracted = None
    /\ stderr = <<>>
    /\ outFile \in {None, StaleFile}
    /\ mdFile = None
    /\ exitCode = -1

Next ==
    \/ Main
    \/ DetermineExecutionMode
    \/ RunMarkdownMode
    \/ RunLegacyExtractFromGit
    \/ RunExtractOnlyMode
    \/ RunFullMode
    \/ ProcessDirectJiraIDs
    \/ FetchCall
    \/ FetchReturn
    \/ FetchDone
    \/ SaveJiraResults

Spec == Init /\ [][Next]_vars

-----------------------------------------------------------------------------
(* Extraction over richer histories: the process at the call of             *)
(* runExtractOnlyMode, as main and determineExecutionMode leave it.         *)

SubjectPool == { <<"fix">>, <<"EV-1">>, <<"EV-2", "EV-1">>, <<"EV-3", "fix", "EV-3">> }

PatternPool == {"", DigitsStar, "EV-1", BadPattern}

RefPool == {HashOf(i) : i \in 1..MaxCommits} \cup {"dead"}

ExtractInit ==
    /\ \E r \in PatternPool, cr \in BOOLEAN :
          flags = [NoFlags EXCEPT !.ExtractOnly = TRUE, !.JIRAIDRegex = r, !.CommitRange = cr]
    /\ \E ref \in RefPool : args = <<ref>>
    /\ env = FullEnv
    /\ repo \in ReposOver(SubjectPool, MaxCommits) \ {NoRepo}
    /\ config = Some([Deref(LoadConfig(flags, env).config) EXCEPT !.StartCommit = args[1]])
    /\ pc = "extract-only"
    /\ mode = <<"git-based", "extract-only">>
    /\ seedID = ""
    /\ jiraIDs = <<>>
    /\ replies = <<>>
    /\ inFlight = <<>>
    /\ response = <<>>
    /\ client = None
    /\ gitCalls = <<CmdGitDir>>
    /\ extracted = None
    /\ stderr = <<>>
    /\ outFile = None
    /\ mdFile = None
    /\ exitCode = -1

ExtractNext == RunExtractOnlyMode

SpecExtract == ExtractInit /\ [][ExtractNext]_vars

-----------------------------------------------------------------------------
(* Properties *)

Tasks == 1..Len(response)

\* C1: FetchJiraDetails never aborts on a per-identifier failure. Every call
\* that returned has its task, at the position of its identifier: an
\* Error-status task carrying the requested identifier when the fetch failed
\* (tracker error, nil issue or nil fields), and otherwise the success result
\* of that reply alone; when the loop is over there are exactly len(ids)
\* tasks.
C1_FetchIsolation ==
    /\ Len(response) = Len(replies)
    /\ Len(response) <= Len(jiraIDs)
    /\ \A i \in Tasks :
         IF IsFailure(replies[i])
         THEN /\ response[i].Status = ErrorStatus
              /\ response[i].Key = jiraIDs[i]
              /\ HasPrefix(response[i].Description, <<"Error: ">>)
         ELSE /\ response[i] = createSuccessResult(Deref(client), Deref(replies[i].issue))
              /\ response[i].Key = Deref(replies[i].issue).Key
    /\ (pc = "save" => Len(response) = Len(jiraIDs))

\* A batch of three with a repeated identifier whose second fetch failed and
\* whose first and third succeeded.
C1_Witness ==
    /\ pc = "save"
    /\ Len(jiraIDs) = 3 /\ jiraIDs[1] = jiraIDs[3] /\ jiraIDs[2] # jiraIDs[1]
    /\ Len(response) = 3
    /\ ~IsFailure(replies[1]) /\ IsFailure(replies[2]) /\ ~IsFailure(replies[3])
    /\ response[2].Status = ErrorStatus /\ response[3].Status = "Done"

\* C2: every task whose status is "Error" has an empty link, empty project,
\* created and updated strings, a nil assignee, no transitions and a
\* description that begins with "Error:".
C2_ErrorStatusShape ==
    \A i \in Tasks :
        response[i].Status = ErrorStatus =>
            /\ response[i].Link = <<>>
            /\ response[i].Project = ""
            /\ response[i].Created = <<>>
            /\ response[i].Updated = <<>>
            /\ IsNil(response[i].Assignee)
            /\ (IsNil(response[i].Transitions) \/ Deref(response[i].Transitions) = <<>>)
            /\ HasPrefix(response[i].Description, <<"Error: ">>)

ExtractionDone == pc = "exit" /\ ~IsNil(extracted) /\ IsNil(Deref(extracted).err)

ExtractedIDs == Deref(extracted).ids

\* The subject lines ExtractJiraIDs scanned, in the order git printed them
ScannedLines ==
    IF Deref(config).SingleCommit
    THEN <<repo.commits[Resolve(repo, Deref(config).StartCommit)].subject>>
    ELSE SubjectsNewestFirst(repo, Resolve(repo, Deref(config).StartCommit), HeadIndex(repo))

\* C3: the identifier list returned by extraction contains no identifier
\* more than once (and never the empty string), whatever the messages, the
\* pattern and the seed.
C3_NoDuplicateIDs ==
    ExtractionDone => NoDuplicates(ExtractedIDs) /\ "" \notin Range(ExtractedIDs)

\* A range of three commits whose messages hold EV-1, EV-1 and EV-2 with
\* EV-1: the result is the set {EV-1, EV-2}.
C3_Witness ==
    /\ ExtractionDone
    /\ ~Deref(config).SingleCommit
    /\ Deref(config).JIRAIDRegex = DefaultJIRAIDRegex
    /\ ScannedLines = << <<"EV-2", "EV-1">>, <<"EV-1">>, <<"EV-1">> >>
    /\ Len(ExtractedIDs) = 2
    /\ Range(ExtractedIDs) = {"EV-1", "EV-2"}

\* The first occurrences of s, in order
RECURSIVE FirstSeen(_)
FirstSeen(s) ==
    IF s = <<>> THEN <<>>
    ELSE LET init == FirstSeen(SubSeq(s, 1, Len(s) - 1))
         IN  IF s[Len(s)] \in Range(init) THEN init ELSE Append(init, s[Len(s)])

\* C4: the identifier list is in first-seen order: the seed first when it is
\* unioned in (range mode, matching the pattern), then the identifiers in the
\* order of their first occurrence in the scanned lines.
C4_FirstSeenOrder ==
    ExtractionDone =>
        ExtractedIDs =
            FirstSeen(SelectSeq(
                (IF ~Deref(config).SingleCommit /\ seedID # ""
                    /\ MatchString(Deref(config).JIRAIDRegex, seedID)
                 THEN <<seedID>> ELSE <<>>)
                \o AllMatches(Deref(config).JIRAIDRegex, ScannedLines),
                LAMBDA id : id # ""))

\* C5: in single-commit mode the seed is in the result only if it occurs in
\* the scanned commit's own message; the result holds nothing but matches
\* found in that message.
C5_SeedOnlyInRangeMode ==
    (ExtractionDone /\ Deref(config).SingleCommit) =>
        /\ (seedID \in Range(ExtractedIDs) => seedID \in Range(ScannedLines[1]))
        /\ Range(ExtractedIDs) \subseteq
              Range(FindAllString(Deref(config).JIRAIDRegex, ScannedLines[1]))

\* Single-commit mode on a commit that is not the tip: the tip's message
\* gives a seed that matches the pattern and is not in the scanned message,
\* and the result has the scanned message's identifier without the seed.
C5_Witness ==
    /\ ExtractionDone /\ Deref(config).SingleCommit
    /\ Deref(config).JIRAIDRegex = DefaultJIRAIDRegex
    /\ seedID = "EV-2"
    /\ Resolve(repo, Deref(config).StartCommit) < HeadIndex(repo)
    /\ ExtractedIDs = <<"EV-1">>

\* The modes entered ("git-based" marks the default branch of
\* determineExecutionMode, which runs extract-only or full mode after the
\* repository check)
ModesRun == SelectSeq(mode, LAMBDA m : m # "git-based")

\* determineExecutionMode was called and has made its choice
Dispatched == ~IsNil(config) /\ pc \notin {"main", "mode"}

ModeByPrecedence ==
    /\ flags.GenerateMarkdown => ModesRun = <<"markdown">>
    /\ (~flags.GenerateMarkdown /\ flags.ExtractFromGit) => ModesRun = <<"legacy">>
    /\ (~flags.GenerateMarkdown /\ ~flags.ExtractFromGit) =>
          ModesRun \in {<<>>, <<"direct">>, <<"extract-only">>, <<"full">>}

\* C6 as stated: determineExecutionMode runs exactly one mode per
\* invocation, chosen by precedence: report flag, then legacy flag, then
\* direct-identifier or default version-control mode.
C6_ExactlyOneMode ==
    Dispatched => Len(ModesRun) = 1 /\ ModeByPrecedence

\* C6 as amended: at most one mode runs, chosen by the same precedence, and
\* none runs exactly when neither flag is set and either no positional
\* argument is given or the repository check of the default mode fails.
C6_ModePrecedence ==
    Dispatched =>
        /\ Len(ModesRun) <= 1
        /\ ModeByPrecedence
        /\ ModesRun = <<>> <=>
              /\ ~flags.GenerateMarkdown /\ ~flags.ExtractFromGit
              /\ \/ Len(args) = 0
                 \/ "git-based" \in Range(mode) /\ repo.state = "none"

\* Every flag set and no positional argument: report mode ran, alone.
C6_Witness ==
    /\ pc = "exit"
    /\ flags.GenerateMarkdown /\ flags.ExtractFromGit /\ flags.ExtractOnly /\ flags.CommitRange
    /\ args = <<>>
    /\ mode = <<"markdown">>
    /\ ~IsNil(mdFile)

DirectCase ==
    /\ ~flags.GenerateMarkdown /\ ~flags.ExtractFromGit
    /\ Len(args) >= 1
    /\ Compiles(Deref(config).JIRAIDRegex)
    /\ \A i \in 1..Len(args) : MatchString(Deref(config).JIRAIDRegex, args[i])

DirectPipeline ==
    /\ mode = <<"direct">>
    /\ Deref(config).JIRAIDs = args
    /\ gitCalls = <<>>
    /\ (pc \in {"fetch", "fetching", "save", "exit"} => jiraIDs = args)
    /\ (pc = "exit" => /\ exitCode = 0
                       /\ Len(response) = Len(args)
                       /\ outFile = Some(MarshalResponse(response)))

NotARepositoryRun == pc = "exit" /\ "git-based" \in Range(mode) /\ repo.state = "none"

NothingDone ==
    /\ ModesRun = <<>>
    /\ gitCalls = <<CmdGitDir>>
    /\ stderr = <<Diag("Error: ", GitError("rev-parse --git-dir", "not in a git repository"))>>
    /\ IsNil(extracted)
    /\ replies = <<>> /\ inFlight = <<>> /\ IsNil(client)
    /\ outFile \in {None, StaleFile} /\ IsNil(mdFile)

GitModeRan ==
    /\ pc = "exit"
    /\ Len(ModesRun) = 1 /\ ModesRun[1] \in {"legacy", "extract-only", "full"}
    /\ CmdBranch \in Range(gitCalls)

\* C9: on a repository without commits a run in a version-control mode
\* prints a diagnostic and ends with exit code 0.
C9_EmptyHistorySoftFail ==
    (GitModeRan /\ repo.state = "empty") => exitCode = 0 /\ stderr # <<>>

\* C10: when the starting reference is hexadecimal and names no commit, a
\* run in a version-control mode prints a diagnostic and ends with exit
\* code 0.
C10_UnknownCommitSoftFail ==
    (/\ GitModeRan /\ repo.state = "commits"
     /\ args[1] \in HexAtoms /\ Resolve(repo, args[1]) = 0) =>
        exitCode = 0 /\ stderr # <<>>


\* The flags select a mode that fetches from the tracker (direct-identifier
\* or full): none of extract-only, legacy and report is set
FetchingRun ==
    ~flags.Help /\ ~flags.HelpLong /\ ~flags.ExtractOnly /\ ~flags.ExtractFromGit /\ ~flags.GenerateMarkdown

CredentialMissing == env.JIRA_API_TOKEN = "" \/ env.JIRA_URL = "" \/ env.JIRA_USERNAME = ""

FirstMissingCredential ==
    IF env.JIRA_API_TOKEN = "" THEN "JIRA_API_TOKEN"
    ELSE IF env.JIRA_URL = "" THEN "JIRA_URL"
    ELSE "JIRA_USERNAME"

\* C11: a run whose flags select a fetching mode with an empty credential
\* never issues a tracker call, and ends with exit code 1 and a
\* ValidationError naming the first missing credential in the order token,
\* URL, username.
C11_CredentialsBeforeNetwork ==
    (FetchingRun /\ CredentialMissing) =>
        /\ replies = <<>> /\ inFlight = <<>> /\ IsNil(client)
        /\ "direct" \notin Range(mode) /\ "full" \notin Range(mode)
        /\ pc = "exit" =>
              /\ exitCode = 1
              /\ \E i \in 1..Len(stderr) :
                    /\ stderr[i].type = "ValidationError"
                    /\ stderr[i].what = FirstMissingCredential

\* Token and username missing, identifiers on the command line: the run
\* ended on the token.
C11_Witness ==
    /\ pc = "exit" /\ FetchingRun
    /\ env.JIRA_API_TOKEN = "" /\ env.JIRA_URL # "" /\ env.JIRA_USERNAME = ""
    /\ args = <<"EV-1">>
    /\ exitCode = 1
    /\ stderr = <<Diag("Error loading configuration: ",
                       ValidationError("JIRA_API_TOKEN", "environment variable is required"))>>


-----------------------------------------------------------------------------
(* Reference validation: git.ValidateCommit(startCommit) as                 *)
(* runLegacyExtractFromGit calls it, the error printed to stderr.           *)

ValidateRefPool ==
    {"", "HEAD", "HEAD~10", "abc-123", "dead", FullHash} \cup {HashOf(i) : i \in 1..MaxCommits}

ValidateInit ==
    /\ flags = [NoFlags EXCEPT !.ExtractFromGit = TRUE]
    /\ \E ref \in ValidateRefPool : args = <<ref, DefaultJIRAIDRegex>>
    /\ env = FullEnv
    /\ repo \in ReposOver(SubjectPool, MaxCommits)
    /\ config = LoadConfig(flags, env).config
    /\ pc = "validate-commit"
    /\ mode = <<"legacy">>
    /\ seedID = ""
    /\ jiraIDs = <<>>
    /\ replies = <<>>
    /\ inFlight = <<>>
    /\ response = <<>>
    /\ client = None
    /\ gitCalls = <<>>
    /\ extracted = None
    /\ stderr = <<>>
    /\ outFile = None
    /\ mdFile = None
    /\ exitCode = -1

\* if err := git.ValidateCommit(startCommit); err != nil { print; return nil }
ValidateCommitCall ==
    /\ pc = "validate-commit"
    /\ LET v == ValidateCommit(repo, args[1])
       IN  /\ gitCalls' = gitCalls \o v.calls
           /\ stderr' = IF IsNil(v.err) THEN stderr
                        ELSE Append(stderr, Diag("soft: ", Deref(v.err)))
           /\ pc' = IF IsNil(v.err) THEN "validated" ELSE "exit"
           /\ exitCode' = IF IsNil(v.err) THEN exitCode ELSE 0
    /\ UNCHANGED <<inputs, tracker, config, mode, seedID, extracted, outFile, mdFile>>

ValidateNext == ValidateCommitCall

SpecValidate == ValidateInit /\ [][ValidateNext]_vars

WellFormedRef(ref) == ref \in HexAtoms

StartIndex == Resolve(repo, Deref(config).StartCommit)

\* The commits whose message is in the scope of the extraction
CommitsInScope ==
    IF Deref(config).SingleCommit THEN {StartIndex}
    ELSE {k \in 1..Len(repo.commits) : k > StartIndex}

\* The identifiers the pattern finds in the messages of the commits in S
IDsOfCommits(S) ==
    UNION { Range(FindAllString(Deref(config).JIRAIDRegex, repo.commits[k].subject)) : k \in S }

EmptyExtraction ==
    /\ pc = "exit"
    /\ ~IsNil(extracted)
    /\ IsNil(Deref(extracted).err)
    /\ Deref(extracted).ids = <<>>

NoIDsWarning == Diag("warning: ", Errorf("No JIRA IDs found"))

\* C14: when ExtractJiraIDs returns an empty list (with no error) it has
\* written a warning to diagnostics, and the run ends with exit code 0,
\* without a tracker call and without writing the output file.
C14_EmptyResultIsSuccess ==
    EmptyExtraction =>
        /\ Deref(extracted).warned
        /\ stderr = <<NoIDsWarning>>
        /\ exitCode = 0
        /\ Len(ModesRun) = 1 /\ ModesRun[1] \in {"legacy", "extract-only", "full"}
        /\ replies = <<>> /\ inFlight = <<>> /\ response = <<>> /\ IsNil(client)
        /\ outFile \in {None, StaleFile}

\* Full mode on a commit whose message holds no identifier: exit code 0,
\* the file of the earlier run untouched.
C14_Witness ==
    /\ EmptyExtraction
    /\ mode = <<"git-based", "full">>
    /\ args = <<"a1">>
    /\ repo.commits = <<[hash |-> "a1", subject |-> <<"fix">>]>>
    /\ stderr = <<NoIDsWarning>>
    /\ exitCode = 0
    /\ outFile = StaleFile


\* A run past LoadConfig with a pattern that does not compile, neither the
\* report nor the legacy flag, and a positional argument: the runs in which
\* direct-identifier mode or the default version-control mode is due
BadPatternRun ==
    /\ pc = "exit" /\ Dispatched
    /\ ~flags.GenerateMarkdown /\ ~flags.ExtractFromGit
    /\ Len(args) >= 1
    /\ Deref(config).JIRAIDRegex = BadPattern

\* ExtractJiraIDs returned the validation error of the pattern
PatternRejected ==
    /\ ~IsNil(extracted)
    /\ Deref(extracted).err = Some(ValidationError("jira_id_regex", "does not compile"))

\* C15 as stated: with a pattern that does not compile, a run in which
\* direct-identifier or version-control mode is due ends with the
\* validation error of the pattern and a non-zero exit code, in every
\* repository state.
C15_BadPatternRejected ==
    BadPatternRun => exitCode # 0 /\ PatternRejected

\* C15 as amended: such a run ends with exit code 1 and never enters
\* direct-identifier mode nor calls the tracker; the error is the validation
\* error of the pattern exactly when the repository has commits and the
\* first positional argument is a hexadecimal reference naming one of them,
\* and otherwise the error of the earlier step that failed.
C15_BadPatternFailsLate ==
    BadPatternRun =>
        /\ exitCode = 1
        /\ "direct" \notin Range(mode)
        /\ replies = <<>> /\ inFlight = <<>> /\ IsNil(client)
        /\ outFile \in {None, StaleFile}
        /\ PatternRejected <=>
              /\ repo.state = "commits"
              /\ args[1] \in HexAtoms
              /\ Resolve(repo, args[1]) # 0
        /\ repo.state = "none" =>
              stderr = <<Diag("Error: ", GitError("rev-parse --git-dir", "not in a git repository"))>>
        /\ (repo.state = "commits" /\ args[1] \notin HexAtoms) =>
              /\ ~IsNil(extracted)
              /\ Deref(extracted).err = Some(ValidationError("commit", "invalid format"))

\* Full mode on an existing commit: the pattern is rejected by
\* ExtractJiraIDs after the log command ran.
C15_Witness ==
    /\ BadPatternRun /\ PatternRejected
    /\ mode = <<"git-based", "full">>
    /\ args = <<"a1">>
    /\ exitCode = 1
    /\ gitCalls[Len(gitCalls)] = CmdSubject("a1")


-----------------------------------------------------------------------------
(* Report generation: the process at the call of runMarkdownMode, with the  *)
(* structured file of an earlier run in place.                              *)

MaxTasks == 2

\* The results FetchJiraDetails can produce for one identifier
TaskPool ==
    { fetchSingleJiraDetail([baseURL |-> FullEnv.JIRA_URL], id, reply) :
        id \in IDPool, reply \in UNION {Replies(i) : i \in IDPool} }

ReportInit ==
    /\ flags = [NoFlags EXCEPT !.GenerateMarkdown = TRUE]
    /\ args = <<>>
    /\ env = FullEnv
    /\ repo = NoRepo
    /\ config = LoadConfig(flags, env).config
    /\ pc = "markdown"
    /\ mode = <<"markdown">>
    /\ seedID = ""
    /\ jiraIDs = <<>>
    /\ replies = <<>>
    /\ inFlight = <<>>
    /\ response = <<>>
    /\ client = None
    /\ gitCalls = <<>>
    /\ extracted = None
    /\ stderr = <<>>
    /\ outFile \in {Some(MarshalResponse(tasks)) : tasks \in SeqsUpTo(TaskPool, MaxTasks)}
    /\ mdFile = None
    /\ exitCode = -1

ReportNext == RunMarkdownMode

SpecReport == ReportInit /\ [][ReportNext]_vars

\* The response runMarkdownMode read from the structured file
ReportInput == UnmarshalResponse(Deref(outFile))

ReportWritten == pc = "exit" /\ ~IsNil(mdFile)

\* C16: the narrative report is a function of the response alone: every
\* rendering of the response the report was made from, at any time, equals
\* the report that was written, distribution rows included.
C16_DeterministicReport ==
    ReportWritten =>
        \A now \in Clock : \A doc \in generateMarkdown(ReportInput, now) : doc = Deref(mdFile)


\* The output file holds what this run wrote
FileWritten == outFile \notin {None, StaleFile}

\* The tracker calls at one moment: at most one call is open, it is the call
\* for the identifier after those already answered, and a file that was
\* written holds the complete batch.
SequentialNow ==
    /\ Len(inFlight) <= 1
    /\ Len(replies) = Len(response)
    /\ Len(replies) + Len(inFlight) <= Len(jiraIDs)
    /\ inFlight # <<>> => inFlight = <<jiraIDs[Len(replies) + 1]>>
    /\ FileWritten =>
          /\ inFlight = <<>>
          /\ Len(replies) = Len(jiraIDs)
          /\ Len(response) = Len(jiraIDs)
          /\ outFile = Some(MarshalResponse(response))

\* The tracker calls from one step to the next: a call is issued only when
\* none is open, for the next identifier; an answer closes the open call and
\* is the only way the answers grow; the identifier list is fixed once the
\* first call is out; the file is written only when every call has returned.
SequentialStep ==
    /\ inFlight' # inFlight =>
          \/ /\ inFlight = <<>>
             /\ inFlight' = <<jiraIDs[Len(replies) + 1]>>
             /\ replies' = replies /\ response' = response
          \/ /\ inFlight' = <<>>
             /\ Len(replies') = Len(replies) + 1
             /\ Len(response') = Len(response) + 1
             /\ SubSeq(response', 1, Len(response)) = response
    /\ (replies' # replies \/ response' # response) => (inFlight # <<>> /\ inFlight' = <<>>)
    /\ (replies # <<>> \/ inFlight # <<>>) => jiraIDs' = jiraIDs
    /\ outFile' # outFile => (inFlight = <<>> /\ Len(replies) = Len(jiraIDs))

LoadedFields ==
    {"JIRAToken", "JIRAURL", "JIRAUsername", "JIRAIDRegex", "OutputFile",
     "ExtractOnly", "ExtractFromGit", "SingleCommit"}

\* C18 as stated: once LoadConfig has returned the configuration, no step
\* writes any field of it.
C18_ConfigReadOnly ==
    [][~IsNil(config) => config' = config]_vars

\* C18 as amended: once LoadConfig has returned the configuration, the
\* fields it set are never written; StartCommit is written once, by
\* determineExecutionMode on its git-based branch (the first positional
\* argument); JIRAIDs is written by determineExecutionMode on its
\* direct-identifier branch (the positional arguments) and by runFullMode
\* (the extracted identifiers); no other step writes the configuration.
C18_ConfigFrame ==
    [][~IsNil(config) =>
         /\ ~IsNil(config')
         /\ \A f \in LoadedFields : Deref(config')[f] = Deref(config)[f]
         /\ Deref(config').StartCommit # Deref(config).StartCommit =>
               /\ pc = "mode" /\ "git-based" \in Range(mode')
               /\ Deref(config).StartCommit = ""
               /\ Deref(config').StartCommit = args[1]
               /\ Deref(config').JIRAIDs = Deref(config).JIRAIDs
         /\ Deref(config').JIRAIDs # Deref(config).JIRAIDs =>
               \/ /\ pc = "mode" /\ pc' = "direct"
                  /\ Deref(config').JIRAIDs = args
               \/ /\ pc = "full" /\ pc' \in {"fetch", "exit"}
                  /\ ~IsNil(extracted')
                  /\ Deref(config').JIRAIDs = Deref(extracted').ids
         /\ config' # config => pc \in {"mode", "full"}
      ]_vars

\* Full mode at the first tracker call: determineExecutionMode has written
\* StartCommit and runFullMode has written JIRAIDs.
C18_Witness ==
    /\ pc = "fetch" /\ mode = <<"git-based", "full">>
    /\ Deref(config).StartCommit = "a1"
    /\ Deref(config).JIRAIDs = <<"EV-1">>
    /\ jiraIDs = <<"EV-1">>


\* C19: for every i, the key of task i equals the requested identifier
\* ids[i], whether the fetch succeeded or failed and whatever key the
\* tracker's reply carries.
C19_KeyIsRequestedID ==
    \A i \in Tasks : response[i].Key = jiraIDs[i]


-----------------------------------------------------------------------------
(* Runs of the fetching modes (direct-identifier and full) from main, with  *)
(* credentials set, under the default pattern and under a pattern that      *)
(* matches the empty string.                                                *)

FetchRunArgPool == {"", "EV-1", "a1"}

FetchRunInit ==
    /\ \E r \in {"", DigitsStar} : flags = [NoFlags EXCEPT !.JIRAIDRegex = r]
    /\ args \in SeqsUpTo(FetchRunArgPool, MaxArgs)
    /\ env = FullEnv
    /\ repo \in ReposOver({<<"EV-1", "fix">>, <<"fix">>}, MaxRunCommits)
    /\ config = None
    /\ pc = "main"
    /\ mode = <<>>
    /\ seedID = ""
    /\ jiraIDs = <<>>
    /\ replies = <<>>
    /\ inFlight = <<>>
    /\ response = <<>>
    /\ client = None
    /\ gitCalls = <<>>
    /\ extracted = None
    /\ stderr = <<>>
    /\ outFile = None
    /\ mdFile = None
    /\ exitCode = -1

FetchRunNext ==
    \/ Main
    \/ DetermineExecutionMode
    \/ RunFullMode
    \/ ProcessDirectJiraIDs
    \/ FetchCall
    \/ FetchReturn
    \/ FetchDone
    \/ SaveJiraResults

SpecFetchRun == FetchRunInit /\ [][FetchRunNext]_vars

\* C20: every task of every response has a non-empty key, in
\* direct-identifier and in version-control mode, for success and error
\* results alike.
C20_NonEmptyKey ==
    \A i \in Tasks : response[i].Key # ""


\* The flags select extract-only mode
ExtractOnlyRun ==
    /\ flags.ExtractOnly
    /\ ~flags.Help /\ ~flags.HelpLong /\ ~flags.GenerateMarkdown /\ ~flags.ExtractFromGit

CredentialNames == {"JIRA_API_TOKEN", "JIRA_URL", "JIRA_USERNAME"}

\* C21: a run in extract-only mode never builds a tracker client, never
\* issues a tracker call, never writes the output file and never fails on a
\* credential: whatever the credentials, a run on an existing commit with a
\* valid pattern ends with exit code 0 and its extraction done.
C21_ExtractOnlyNeedsNoTracker ==
    ExtractOnlyRun =>
        /\ IsNil(client) /\ replies = <<>> /\ inFlight = <<>> /\ response = <<>>
        /\ outFile \in {None, StaleFile} /\ IsNil(mdFile)
        /\ "direct" \notin Range(mode) /\ "full" \notin Range(mode)
        /\ \A i \in 1..Len(stderr) : stderr[i].what \notin CredentialNames
        /\ pc # "main" => ~IsNil(config)
        /\ (/\ pc = "exit" /\ repo.state = "commits" /\ Len(args) >= 1
            /\ args[1] \in HexAtoms /\ Resolve(repo, args[1]) # 0
            /\ Compiles(Deref(config).JIRAIDRegex)) =>
               exitCode = 0 /\ ExtractionDone

\* Extract-only with no credential set: EV-1 extracted, exit code 0.
C21_Witness ==
    /\ pc = "exit" /\ ExtractOnlyRun
    /\ env.JIRA_API_TOKEN = "" /\ env.JIRA_URL = "" /\ env.JIRA_USERNAME = ""
    /\ mode = <<"git-based", "extract-only">>
    /\ ExtractionDone /\ ExtractedIDs = <<"EV-1">>
    /\ exitCode = 0
    /\ outFile = StaleFile


TaskFields ==
    {"Key", "Link", "Status", "Description", "Type", "Project", "Created", "Updated",
     "Assignee", "Reporter", "Priority", "Transitions"}

-----------------------------------------------------------------------------
(* Configuration loading: main up to the return of LoadConfig, with the     *)
(* pattern and the output path given by flag, by environment, by both or    *)
(* by neither.                                                              *)

ConfigFlagPool ==
    { [NoFlags EXCEPT !.JIRAIDRegex = r, !.OutputFile = o, !.ExtractOnly = eo] :
        r \in {"", "EV-1", DigitsStar}, o \in {"", "flag.json"}, eo \in BOOLEAN }

ConfigEnvPool ==
    { [e EXCEPT !.JIRA_ID_REGEX = r, !.OUTPUT_FILE = o] :
        e \in EnvPool, r \in {"", "EV-2", BadPattern}, o \in {"", "env.json"} }

ConfigInit ==
    /\ flags \in ConfigFlagPool
    /\ args = <<"a1">>
    /\ env \in ConfigEnvPool
    /\ repo = NoRepo
    /\ config = None
    /\ pc = "main"
    /\ mode = <<>>
    /\ seedID = ""
    /\ jiraIDs = <<>>
    /\ replies = <<>>
    /\ inFlight = <<>>
    /\ response = <<>>
    /\ client = None
    /\ gitCalls = <<>>
    /\ extracted = None
    /\ stderr = <<>>
    /\ outFile = None
    /\ mdFile = None
    /\ exitCode = -1

ConfigNext == Main

SpecConfig == ConfigInit /\ [][ConfigNext]_vars

\* The first non-empty of flag value, environment value and default
Resolved(flagValue, envValue, default) ==
    IF flagValue # "" THEN flagValue
    ELSE IF envValue # "" THEN envValue
    ELSE default

\* C23: in the configuration LoadConfig returns, the identifier pattern and
\* the output path are the first non-empty of flag value, environment value
\* and built-in default, and neither is empty.
C23_FlagEnvDefault ==
    ~IsNil(config) =>
        /\ Deref(config).JIRAIDRegex =
              Resolved(flags.JIRAIDRegex, env.JIRA_ID_REGEX, "[A-Z]+-[0-9]+")
        /\ Deref(config).OutputFile =
              Resolved(flags.OutputFile, env.OUTPUT_FILE, "transformed_jira_data.json")
        /\ Deref(config).JIRAIDRegex # "" /\ Deref(config).OutputFile # ""

\* The pattern comes from the environment (no flag), the output path from
\* the flag although the environment has one too.
C23_Witness ==
    /\ pc = "mode" /\ ~IsNil(config)
    /\ flags.JIRAIDRegex = "" /\ env.JIRA_ID_REGEX = "EV-2"
    /\ flags.OutputFile = "flag.json" /\ env.OUTPUT_FILE = "env.json"
    /\ Deref(config).JIRAIDRegex = "EV-2"
    /\ Deref(config).OutputFile = "flag.json"

-----------------------------------------------------------------------------
(* formatDate over date texts: runMarkdownMode renders a structured file whose
   only task carries the texts in Created and Updated *)

DatePool ==
    { <<>>, <<"N/A">>, <<"not-a-date">>, <<"2025-01-01">>,
      FormatJiraTime(Stamp1),
      FormatJiraTime([Stamp1 EXCEPT !.zone = "+0000"]),
      FormatJiraTime([Stamp1 EXCEPT !.frac = "000"]),
      FormatJiraTime([Stamp1 EXCEPT !.clock = "9:30:45"]),
      FormatJiraTime([Stamp1 EXCEPT !.date = "2025-02-30"]),
      FormatJiraTime([Stamp1 EXCEPT !.zone = "Z"]),
      <<"2025-01-01", "T", "10:30:45", "+0300">>,
      <<"2025-01-01", " ", "10:30:45">>, <<"2025-01-01", " ", "09:30:45">> }

DatedTask(created, updated) ==
    [createErrorResult("EV-1", None) EXCEPT !.Created = created, !.Updated = updated]

DatesInit ==
    /\ flags = [NoFlags EXCEPT !.GenerateMarkdown = TRUE]
    /\ args = <<>>
    /\ env = FullEnv
    /\ repo = NoRepo
    /\ config = LoadConfig(flags, env).config
    /\ pc = "markdown"
    /\ mode = <<"markdown">>
    /\ seedID = ""
    /\ jiraIDs = <<>>
    /\ replies = <<>>
    /\ inFlight = <<>>
    /\ response = <<>>
    /\ client = None
    /\ gitCalls = <<>>
    /\ extracted = None
    /\ stderr = <<>>
    /\ outFile \in {Some(MarshalResponse(<<DatedTask(c, u)>>)) : c \in DatePool, u \in DatePool}
    /\ mdFile = None
    /\ exitCode = -1

DatesNext == RunMarkdownMode

SpecDates == DatesInit /\ [][DatesNext]_vars

\* The date texts of the task read from the structured file, and what the
\* report shows for them
DateTexts == <<ReportInput[1].Created, ReportInput[1].Updated>>
DatesShown == <<Deref(mdFile).details[1].created, Deref(mdFile).details[1].updated>>

\* The texts time.Parse accepts under the tracker layout, written out
TrackerLayoutTexts ==
    { <<"2025-01-01", "T", c, ".", f, z>> :
        c \in {"10:30:45", "9:30:45"}, f \in {"000", "123"}, z \in {"+0000", "+0300"} }

\* Hour, minute and second of a clock text
ClockFields(clock) ==
    CASE clock \in {"9:30:45", "09:30:45"} -> <<9, 30, 45>>
      [] clock = "10:30:45" -> <<10, 30, 45>>
      [] clock = "07:30:45" -> <<7, 30, 45>>
      [] clock = "06:30:45" -> <<6, 30, 45>>
      [] OTHER -> <<>>

\* date, blank, two-digit clock
RenderedShape(text) ==
    /\ Len(text) = 3 /\ text[2] = " "
    /\ text[3] \in {"10:30:45", "09:30:45", "07:30:45", "06:30:45"}

\* C24: formatDate has three outcomes: the empty text is shown as N/A; a
\* text in the tracker layout is shown as date, blank, clock with the date and
\* the hour, minute and second it was written with (no zone conversion, no
\* fraction); every other text is shown verbatim. Formatting what is shown
\* changes nothing.
C24_FormatDate ==
    ReportWritten =>
        \A k \in 1..2 :
            LET x == DateTexts[k]
                y == DatesShown[k]
            IN /\ (x = <<>> => y = <<"N/A">>)
               /\ (x \in TrackerLayoutTexts =>
                      /\ RenderedShape(y)
                      /\ y[1] = x[1]
                      /\ ClockFields(y[3]) = ClockFields(x[3]))
               /\ (x # <<>> /\ x \notin TrackerLayoutTexts => y = x)
               /\ formatDate(y) = y

\* A stamp with a zone other than UTC and an unparsable text in one report
C24_Witness ==
    /\ ReportWritten
    /\ DateTexts[1] = FormatJiraTime(Stamp1)
    /\ DatesShown[1] = <<"2025-01-01", " ", "10:30:45">>
    /\ DateTexts[2] = <<"not-a-date">>
    /\ DatesShown[2] = <<"not-a-date">>

\* The key of a task as the report shows it: linked when the task has a link
ShownKey(task) ==
    IF task.Link = <<>> THEN <<task.Key>> ELSE <<"[", task.Key, "](">> \o task.Link \o <<")">>

\* C25: for a response of n tasks, n = 0 included, the report is written,
\* starts with the title, states the total n, has the headings Summary, Task
\* Details and Status Distribution in that order, and has one summary row and
\* one detail section numbered from 1 per task, both in response order.
C25_ReportStructure ==
    pc = "exit" =>
        /\ ~IsNil(mdFile)
        /\ LET doc == Deref(mdFile)
               n   == Len(ReportInput)
           IN /\ doc.title = "# JIRA Tasks Report"
              /\ doc.total = n
              /\ doc.headings = <<"## Summary", "## Task Details", "## Status Distribution">>
              /\ Len(doc.summary) = n
              /\ Len(doc.details) = n
              /\ \A i \in 1..n :
                    /\ doc.summary[i].key = ShownKey(ReportInput[i])
                    /\ doc.summary[i].status = ReportInput[i].Status
                    /\ doc.details[i].heading = <<i>> \o ShownKey(ReportInput[i])
                    /\ doc.details[i].status = ReportInput[i].Status

\* A report of two tasks with different keys
C25_Witness ==
    /\ ReportWritten
    /\ Len(ReportInput) = 2
    /\ ReportInput[1].Key # ReportInput[2].Key
    /\ Deref(mdFile).total = 2
    /\ Deref(mdFile).details[2].heading = <<2>> \o ShownKey(ReportInput[2])

-----------------------------------------------------------------------------
(* extractTransitions over changelogs: createSuccessResult builds the result
   of one issue whose changelog is drawn from a pool *)

MaxHistories == 2

Bob == [DisplayName |-> "bob", EmailAddress |-> "bob@example.com"]
Stamp2 == [date |-> "2025-01-01", clock |-> "10:30:45", frac |-> "000", zone |-> "+0000"]

StatusChange2 == [Field |-> "status", FromString |-> "Done", ToString |-> "Closed"]
CapitalChange == [Field |-> "Status", FromString |-> "Closed", ToString |-> "Open"]

\* The items of one history: none, each kind of item alone, and items of
\* several kinds in several orders
ItemsPool ==
    { <<>>,
      <<StatusChange>>, <<StatusChange2>>, <<OtherChange>>, <<CapitalChange>>,
      <<StatusChange, StatusChange2>>, <<StatusChange2, StatusChange>>,
      <<OtherChange, StatusChange>>, <<CapitalChange, StatusChange>>,
      <<StatusChange2, OtherChange, StatusChange>> }

\* The k-th history of a changelog: its author and time go with its place,
\* its items are drawn from the pool
HistoryPool(k) ==
    { [Author |-> IF k % 2 = 1 THEN Alice ELSE Bob,
       Created |-> FormatJiraTime(IF k % 2 = 1 THEN Stamp1 ELSE Stamp2),
       Items |-> items] : items \in ItemsPool }

\* The changelogs of exactly n histories
RECURSIVE HistorySeqs(_)
HistorySeqs(n) ==
    IF n = 0 THEN {<<>>}
    ELSE {Append(hs, h) : hs \in HistorySeqs(n - 1), h \in HistoryPool(n)}

HistoriesPool ==
    {None} \cup {Some([Histories |-> hs]) : hs \in UNION {HistorySeqs(n) : n \in 0..MaxHistories}}

TransitionsInit ==
    /\ flags = NoFlags
    /\ args = <<>>
    /\ env = FullEnv
    /\ repo = NoRepo
    /\ config = None
    /\ pc = "fetching"
    /\ mode = <<>>
    /\ seedID = ""
    /\ jiraIDs = <<"EV-1">>
    /\ replies \in { << [issue |-> Some([Key |-> "EV-1", Fields |-> Some(PlainFields), Changelog |-> c]),
                        err |-> None] >> : c \in HistoriesPool }
    /\ inFlight = <<"EV-1">>
    /\ response = <<>>
    /\ client = Some([baseURL |-> FullEnv.JIRA_URL])
    /\ gitCalls = <<>>
    /\ extracted = None
    /\ stderr = <<>>
    /\ outFile = None
    /\ mdFile = None
    /\ exitCode = -1

\* fetchSingleJiraDetail after Issue.Get returned the issue: createSuccessResult
CreateSuccessResultCall ==
    /\ pc = "fetching"
    /\ Len(replies) = Len(response) + 1
    /\ response' = Append(response, createSuccessResult(Deref(client), Deref(replies[Len(replies)].issue)))
    /\ inFlight' = Tail(inFlight)
    /\ pc' = "fetch"
    /\ UNCHANGED <<flags, args, env, repo, config, mode, seedID, jiraIDs, replies,
                   client, gitCalls, extracted, stderr, outFile, mdFile, exitCode>>

TransitionsNext == CreateSuccessResultCall

SpecTransitions == TransitionsInit /\ [][TransitionsNext]_vars

\* The histories of the issue the tracker sent, and the transitions of the
\* result made from it
SentHistories ==
    IF IsNil(Deref(replies[1].issue).Changelog) THEN <<>>
    ELSE Deref(Deref(replies[1].issue).Changelog).Histories

ResultTransitions ==
    IF IsNil(response[1].Transitions) THEN <<>> ELSE Deref(response[1].Transitions)

\* The places <<history, item>> of the changelog whose field is "status"
StatusPlaces ==
    UNION { { <<h, i>> : i \in {j \in 1..Len(SentHistories[h].Items) :
                                  SentHistories[h].Items[j].Field = "status"} } :
            h \in 1..Len(SentHistories) }

\* A place's position in changelog order among the status places
PlaceRank(p) ==
    Cardinality({q \in StatusPlaces : q[1] < p[1] \/ (q[1] = p[1] /\ q[2] <= p[2])})

\* C26: the transitions of a result are the changelog items whose field is
\* exactly "status", one transition per item, in history order and item order
\* within a history, with from and to of the item and author name, author
\* contact and time of the history the item is in; no other item gives one.
C26_TransitionsFromStatusItems ==
    Len(response) = 1 =>
        /\ Len(ResultTransitions) = Cardinality(StatusPlaces)
        /\ \A p \in StatusPlaces :
              ResultTransitions[PlaceRank(p)] =
                 [ FromStatus     |-> SentHistories[p[1]].Items[p[2]].FromString,
                   ToStatus       |-> SentHistories[p[1]].Items[p[2]].ToString,
                   Author         |-> SentHistories[p[1]].Author.DisplayName,
                   AuthorEmail    |-> SentHistories[p[1]].Author.EmailAddress,
                   TransitionTime |-> SentHistories[p[1]].Created ]

\* Two histories by different authors: the first with two status items, the
\* second with an item of another field and a status item
C26_Witness ==
    /\ Len(response) = 1
    /\ Len(SentHistories) = 2
    /\ SentHistories[1].Author = Alice /\ SentHistories[1].Items = <<StatusChange, StatusChange2>>
    /\ SentHistories[2].Author = Bob /\ SentHistories[2].Items = <<CapitalChange, StatusChange>>
    /\ Len(ResultTransitions) = 3
    /\ ResultTransitions[3].Author = "bob"

-----------------------------------------------------------------------------
(* getDescription over rich documents: createSuccessResult builds the result
   of one issue whose description is drawn from a pool *)

MaxNodes == 2

Heading(nodes) == [kind |-> "map", type |-> "heading", content |-> Some(nodes), text |-> None]

TextPool == {TextNode(<<"Fix ">>), TextNode(<<"login">>)}

\* Text nodes, and paragraphs and headings of text nodes or of one paragraph
NodePool ==
    TextPool
    \cup {Para(nodes) : nodes \in SeqsUpTo(TextPool, MaxNodes)}
    \cup {Heading(nodes) : nodes \in SeqsUpTo(TextPool, MaxNodes)}
    \cup {Para(<<Para(<<t>>)>>) : t \in TextPool}
    \cup {Heading(<<Para(<<t>>)>>) : t \in TextPool}

\* Fields.Description: null, a string, a map without a content list, or a
\* document of nodes
DescriptionPool ==
    { None,
      Some([kind |-> "string", v |-> <<"simple string">>]),
      Some([kind |-> "map", type |-> "doc", content |-> None, text |-> None]) }
    \cup {Some(Doc(nodes)) : nodes \in SeqsUpTo(NodePool, MaxNodes)}

DescriptionInit ==
    /\ flags = NoFlags
    /\ args = <<>>
    /\ env = FullEnv
    /\ repo = NoRepo
    /\ config = None
    /\ pc = "fetching"
    /\ mode = <<>>
    /\ seedID = ""
    /\ jiraIDs = <<"EV-1">>
    /\ replies \in { << [issue |-> Some([Key |-> "EV-1",
                                         Fields |-> Some([PlainFields EXCEPT !.Description = d]),
                                         Changelog |-> None]),
                        err |-> None] >> : d \in DescriptionPool }
    /\ inFlight = <<"EV-1">>
    /\ response = <<>>
    /\ client = Some([baseURL |-> FullEnv.JIRA_URL])
    /\ gitCalls = <<>>
    /\ extracted = None
    /\ stderr = <<>>
    /\ outFile = None
    /\ mdFile = None
    /\ exitCode = -1

DescriptionNext == CreateSuccessResultCall

SpecDescription == DescriptionInit /\ [][DescriptionNext]_vars

\* The description the tracker sent
SentDescription == Deref(Deref(replies[1].issue).Fields).Description

\* The text of every leaf text node below a node, in document order
RECURSIVE LeafText(_)
RECURSIVE LeafTexts(_)
LeafTexts(nodes) ==
    IF nodes = <<>> THEN <<>> ELSE LeafText(Head(nodes)) \o LeafTexts(Tail(nodes))

LeafText(node) ==
    IF node.kind # "map" THEN <<>>
    ELSE IF node.type = "text" THEN (IF IsNil(node.text) THEN <<>> ELSE Deref(node.text))
    ELSE IF IsNil(node.content) THEN <<>>
    ELSE LeafTexts(Deref(node.content))

\* A document: a map with a content list
IsDocument(desc) ==
    ~IsNil(desc) /\ Deref(desc).kind = "map" /\ ~IsNil(Deref(desc).content)

\* C27: the description of a result made from a document is the text of all
\* its leaf text nodes in document order, whatever the depth and whatever the
\* type of the nodes they are in.
C27_FlattensAllText ==
    (Len(response) = 1 /\ IsDocument(SentDescription)
        /\ LeafTexts(Deref(Deref(SentDescription).content)) # <<>>)
    => response[1].Description = LeafTexts(Deref(Deref(SentDescription).content))

\* The rows of the status-distribution table of the report
DistributionRows == Deref(mdFile).distribution

RECURSIVE SumOfCounts(_)
SumOfCounts(rows) == IF rows = <<>> THEN 0 ELSE Head(rows).count + SumOfCounts(Tail(rows))

TasksWithStatus(status) == SelectSeq(ReportInput, LAMBDA task : task.Status = status)

\* C28: in the status-distribution table every status of the response has
\* exactly one row, no other status has a row, the count of a row is the
\* number of tasks with its status, and the counts add up to the total of the
\* header.
C28_StatusDistribution ==
    ReportWritten =>
        /\ \A i \in 1..Len(ReportInput) :
              Cardinality({k \in 1..Len(DistributionRows) :
                              DistributionRows[k].status = ReportInput[i].Status}) = 1
        /\ \A k \in 1..Len(DistributionRows) :
              /\ \E i \in 1..Len(ReportInput) : ReportInput[i].Status = DistributionRows[k].status
              /\ DistributionRows[k].count = Len(TasksWithStatus(DistributionRows[k].status))
        /\ SumOfCounts(DistributionRows) = Deref(mdFile).total

\* Two tasks of one status share a row
C28_Witness ==
    /\ ReportWritten
    /\ Len(ReportInput) = 2
    /\ ReportInput[1].Status = ReportInput[2].Status
    /\ ReportInput[1].Key # ReportInput[2].Key
    /\ Len(DistributionRows) = 1
    /\ DistributionRows[1].count = 2

\* Extraction in range mode has returned
RangeExtractionDone == ExtractionDone /\ ~Deref(config).SingleCommit

\* The identifiers the pattern finds in the starting reference's own message
\* and in no message after it
OnlyInStartMessage ==
    (IDsOfCommits({StartIndex}) \ IDsOfCommits({k \in 1..Len(repo.commits) : k > StartIndex})) \ {""}

EmptyFullExtraction ==
    /\ mode = <<"git-based", "full">>
    /\ ~IsNil(extracted)
    /\ IsNil(Deref(extracted).err)
    /\ Deref(extracted).ids = <<>>

\* The step of runFullMode in which the extraction comes back empty
EmptyFullStep == pc = "full" /\ EmptyFullExtraction'

\* C30: in full version-control mode, the step in which extraction yields no
\* identifier ends the run with exit code 0, builds no tracker client, issues
\* no tracker call and leaves the output file as it was, a file of an earlier
\* run included; nothing of this changes afterwards.
C30_EmptyFullRunIsInert ==
    /\ [](EmptyFullExtraction =>
             /\ pc = "exit" /\ exitCode = 0
             /\ IsNil(client) /\ jiraIDs = <<>>
             /\ replies = <<>> /\ inFlight = <<>> /\ response = <<>>
             /\ outFile \in {None, StaleFile})
    /\ [][EmptyFullStep =>
             /\ pc' = "exit" /\ exitCode' = 0
             /\ client' = client /\ IsNil(client')
             /\ <<replies, inFlight, response>>' = <<replies, inFlight, response>>
             /\ outFile' = outFile]_vars

\* Full mode over the empty range from the tip, whose message holds no
\* identifier, with the file of an earlier run in place
C30_Witness ==
    /\ EmptyFullExtraction
    /\ pc = "exit" /\ exitCode = 0
    /\ flags.CommitRange
    /\ ~Deref(config).SingleCommit
    /\ Resolve(repo, Deref(config).StartCommit) = HeadIndex(repo)
    /\ seedID = ""
    /\ IsNil(client)
    /\ outFile = StaleFile

====
